---- MODULE Spec2Model ----
(***************************************************************************)
(* A model of the eremius ARM assembler/emulator core: the encodable       *)
(* scalar types of src/ir, the encoder and decoder, the statement          *)
(* resolver and the emulator's fetch/decode/execute step.                  *)
(*                                                                         *)
(* A 32-bit word is a function from bit index 0..31 to 0..1, so that every *)
(* u32 and i32 value keeps its width.  Small fields (register numbers,     *)
(* 8-bit values, shift amounts) are integers.                              *)
(***************************************************************************)
EXTENDS Integers, Sequences, FiniteSets, TLC

\* ------------------------------------------------------------------ bounds
\* inputs of the RotatedImm8 functions lie within MaxDelta of a rotated byte
MaxDelta == 2
\* how many times next() is applied in a row to one immediate
MaxNext == 2
\* how many instructions the emulator steps through after assemble
MaxSteps == 1

\* ------------------------------------------------------- program constants
\* the length of Emulator::memory
MemorySize == 65535

VARIABLES
    overflow_checks,  \* the build: TRUE = arithmetic overflow panics (debug)
    input,            \* the argument a pure function is applied to
    call,             \* the last application of a pure function and its result
    registers,        \* Emulator::registers, 16 words
    cpsr,             \* Emulator::cpsr, the flags n, z, c, v
    memory,           \* Emulator::memory, the bytes written so far (others 0)
    status,           \* the emulator's position: new, loaded, ok, invalid, panic
    steps,            \* calls of step() so far
    preprocessor,     \* the PreProcessor inside run() and the position of run()
    lexer             \* the Tokens iterator and the tokens it has returned

vars == <<overflow_checks, input, call, registers, cpsr, memory, status, steps,
          preprocessor, lexer>>

\* ------------------------------------------------------------- u32 / i32
\* let x = v in F(x), with v evaluated once
Let(v, F(_)) == CHOOSE r \in {F(x) : x \in {v}} : TRUE
Let2(u, v, F(_, _)) == CHOOSE r \in {F(x, y) : x \in {u}, y \in {v}} : TRUE

\* the word of a natural number below 2^31
U32(n) == [i \in 0..31 |-> IF i > 30 THEN 0 ELSE (n \div (2 ^ i)) % 2]

NotW(a) == [i \in 0..31 |-> 1 - a[i]]
OrW(a, b) == [i \in 0..31 |-> IF a[i] = 1 \/ b[i] = 1 THEN 1 ELSE 0]
AndW(a, b) == [i \in 0..31 |-> IF a[i] = 1 /\ b[i] = 1 THEN 1 ELSE 0]
XorW(a, b) == [i \in 0..31 |-> IF a[i] = b[i] THEN 0 ELSE 1]

\* the word of an i32 (two's complement)
I32(n) == IF n >= 0 THEN U32(n) ELSE NotW(U32(-n - 1))

\* Bits::range(lo..=hi): the field of a word as a number (at most 31 bits wide)
range(w, lo, hi) ==
    LET f[i \in lo..(hi + 1)] == IF i > hi THEN 0 ELSE w[i] + 2 * f[i + 1]
    IN f[lo]

\* a word read as an i32
AsI32(w) == IF w[31] = 0 THEN range(w, 0, 30) ELSE -range(NotW(w), 0, 30) - 1

\* u32 << k, u32 >> k (logical), i32 >> k (arithmetic), for 0 <= k <= 31
Shl(w, k) == [i \in 0..31 |-> IF i >= k THEN w[i - k] ELSE 0]
Shr(w, k) == [i \in 0..31 |-> IF i + k <= 31 THEN w[i + k] ELSE 0]
Sar(w, k) == [i \in 0..31 |-> IF i + k <= 31 THEN w[i + k] ELSE w[31]]
rotate_right(w, k) == [i \in 0..31 |-> w[(i + k) % 32]]
rotate_left(w, k) == [i \in 0..31 |-> w[(i + 32 - (k % 32)) % 32]]

\* u32::leading_zeros / trailing_zeros (32 for the zero word)
leading_zeros(w) ==
    Let(w, LAMBDA x :
        LET f[i \in 0..32] == IF i = 32 THEN 32 ELSE IF x[31 - i] = 1 THEN i ELSE f[i + 1]
        IN f[0])
trailing_zeros(w) ==
    Let(w, LAMBDA x :
        LET f[i \in 0..32] == IF i = 32 THEN 32 ELSE IF x[i] = 1 THEN i ELSE f[i + 1]
        IN f[0])

Min(a, b) == IF a <= b THEN a ELSE b

\* u32::carrying_add(a, b, carry_in): the wrapped sum and the carry out
carrying_add(a, b, cin) ==
    Let2(a, b, LAMBDA x, y :
        Let(range(x, 0, 15) + range(y, 0, 15) + cin, LAMBDA lo :
            Let(range(x, 16, 31) + range(y, 16, 31) + lo \div 65536, LAMBDA hi :
                [sum |-> [i \in 0..31 |-> IF i < 16 THEN (lo \div (2 ^ i)) % 2
                                          ELSE (hi \div (2 ^ (i - 16))) % 2],
                 carry |-> hi >= 65536])))

\* u32::borrowing_sub(a, b, borrow_in): the wrapped difference and the borrow out
borrowing_sub(a, b, bin) ==
    Let(carrying_add(a, NotW(b), 1 - bin), LAMBDA r : [diff |-> r.sum, borrow |-> ~r.carry])

\* a < b as unsigned numbers
LtU(a, b) == borrowing_sub(a, b, 0).borrow

\* a ^ b on small naturals (Rust's ^ is exclusive or)
BitXor(a, b) == range(XorW(U32(a), U32(b)), 0, 30)

\* ---------------------------------------------------------------- outcomes
\* what a call can come to: a value, an error value, or a panic
Ok(v) == [tag |-> "Ok", val |-> v]
Err(e) == [tag |-> "Err", err |-> e]
Panic == [tag |-> "Panic"]

\* ------------------------------------------------------------ src/ir: Imm
\* Imm<N>::try_from(value): the bound is written `2 ^ N`, Rust's exclusive or
Imm_try_from(N, value) ==
    IF LtU(value, U32(BitXor(2, N)))
    THEN Ok(range(value, 0, 30))
    ELSE Err("UnencodableValue")

\* SignedImm<N>::try_from(value), value an i32 given as a word
SignedImm_try_from(N, value) ==
    LET bound == BitXor(2, N - 1)
        v == AsI32(value)
    IN IF -bound <= v /\ v < bound THEN Ok(v) ELSE Err("UnencodableSignedValue")

\* ---------------------------------------------------- src/ir: RotatedImm8
\* RotatedImm8::get
RotatedImm8_get(imm) == rotate_right(U32(imm.value), imm.rotate * 2)

\* RotatedImm8::nearest_below
nearest_below(n) ==
    LET leading == Min(leading_zeros(n), 24)
        trailing == trailing_zeros(n)
        rotate_amount == Min((8 + leading) % 32, 32 - trailing)
        rotate == rotate_amount \div 2
        value == range(rotate_left(n, rotate * 2), 0, 7)
    IN [rotate |-> rotate, value |-> value]

\* RotatedImm8::next
RotatedImm8_next(self) ==
    LET value == (self.value + 1) % 256
    IN IF value = 0
       THEN [rotate |-> self.rotate + 1, value |-> 64]
       ELSE [rotate |-> self.rotate, value |-> value]

\* RotatedImm8::try_from
RotatedImm8_try_from(value) ==
    LET below == nearest_below(value)
    IN IF RotatedImm8_get(below) = value THEN Ok(below) ELSE Err("UnencodableValue")

\* RotatedImm8::nearest_with_remainder: the u32 subtractions and the i32
\* negation panic on overflow in a build with overflow checks and wrap otherwise
nearest_with_remainder(n) ==
    LET below == nearest_below(n)
        above == RotatedImm8_next(below)
        below_diff == borrowing_sub(n, RotatedImm8_get(below), 0)
        above_diff == borrowing_sub(RotatedImm8_get(above), n, 0)
        most_negative == above_diff.diff = Shl(U32(1), 31)
    IN IF overflow_checks /\ (below_diff.borrow \/ above_diff.borrow)
       THEN Panic
       ELSE IF LtU(below_diff.diff, above_diff.diff)
       THEN Ok([imm |-> below, remainder |-> AsI32(below_diff.diff)])
       ELSE IF most_negative
       THEN IF overflow_checks THEN Panic
            ELSE Ok([imm |-> above, remainder |-> AsI32(above_diff.diff)])
       ELSE Ok([imm |-> above, remainder |-> -AsI32(above_diff.diff)])

\* ------------------------------------------------------------ src/encoder
\* a field value placed at a bit position: (x as u32) << k
Field(x, k) == Shl(U32(x), k)

\* the discriminant of a Condition (ir::Condition, #[repr(u8)])
ConditionNames ==
    <<"EQ", "NE", "CS", "CC", "MI", "PL", "VS", "VC", "HI", "LS", "GE", "LT", "GT", "LE", "AL">>
ConditionCode(c) == CHOOSE k \in 0..14 : ConditionNames[k + 1] = c
\* the discriminant of a Shift (ir::Shift, #[repr(u8)])
ShiftNames ==
    <<"LogicalShiftLeft", "LogicalShiftRight", "ArithmeticShiftRight", "RotateRight">>
ShiftCode(k) == CHOOSE n \in 0..3 : ShiftNames[n + 1] = k

Condition_encode(c) == Field(ConditionCode(c), 28)
Imm_encode(v) == U32(v)
bottom_n(n) == borrowing_sub(Shl(U32(1), n), U32(1), 0).diff
SignedImm_encode(N, v) == AndW(I32(v), bottom_n(N))
BranchKind_encode(k) == IF k = "BranchWithLink" THEN Field(1, 24) ELSE U32(0)
MoveKind_encode(k) == IF k = "MoveNot" THEN Field(1, 22) ELSE U32(0)
SetFlags_encode(f) == IF f = "Set" THEN Field(1, 20) ELSE U32(0)
LoadStoreKind_encode(k) == IF k = "Load" THEN Field(1, 20) ELSE U32(0)
LoadStoreQuantity_encode(q) == IF q = "Byte" THEN Field(1, 22) ELSE U32(0)
Rn_encode(r) == Field(r, 16)
Rd_encode(r) == Field(r, 12)
Rm_encode(r) == U32(r)
Rs_encode(r) == Field(r, 8)
Shift_encode(k) == Field(ShiftCode(k), 5)
RotatedImm8_encode(imm) == OrW(Field(imm.rotate, 8), U32(imm.value))

\* ShiftedRegister<Imm<5>>::encode
ShiftedRegisterImm_encode(sr) ==
    OrW(OrW(Imm_encode(sr.amount), Shift_encode(sr.kind)), Rm_encode(sr.base))
\* ShiftedRegister<Rs>::encode
ShiftedRegisterRs_encode(sr) ==
    OrW(OrW(Rs_encode(sr.amount), Shift_encode(sr.kind)), Rm_encode(sr.base))

ShifterOperandCode_encode(sh) ==
    CASE sh.tag = "Immediate" -> RotatedImm8_encode(sh.imm)
      [] sh.tag = "ImmediateShift" -> ShiftedRegisterImm_encode(sh)
      [] sh.tag = "RegisterShift" -> ShiftedRegisterRs_encode(sh)

OffsetMode_encode(m) ==
    LET pw == CASE m = "Offset" -> <<1, 0>>
                [] m = "PreIndexed" -> <<1, 1>>
                [] m = "PostIndexed" -> <<0, 0>>
    IN OrW(Field(pw[1], 24), Field(pw[2], 21))
Sign_encode(sg) == IF sg = "Positive" THEN Field(1, 23) ELSE U32(0)
AddressingOffsetValue_encode(v) ==
    CASE v.tag = "Immediate" -> Imm_encode(v.imm)
      [] v.tag = "Register" -> Rm_encode(v.register)
      [] v.tag = "ScaledRegister" -> ShiftedRegisterImm_encode(v)
AddressingOffset_encode(o) ==
    OrW(OrW(OffsetMode_encode(o.mode), Sign_encode(o.sign)), AddressingOffsetValue_encode(o.value))
LoadStoreAddressCode_encode(a) == OrW(Rn_encode(a.base), AddressingOffset_encode(a.offset))

MultipleAddressingMode_encode(m) ==
    LET lpu == CASE m = "DecrementAfter" -> <<1, 0, 0>>
                 [] m = "IncrementAfter" -> <<1, 0, 1>>
                 [] m = "DecrementBefore" -> <<1, 1, 0>>
                 [] m = "IncrementBefore" -> <<1, 1, 1>>
    IN OrW(OrW(Field(lpu[2], 24), Field(lpu[3], 23)), Field(lpu[1], 20))
WriteBack_encode(wb) == IF wb = "WriteBack" THEN Field(1, 21) ELSE U32(0)
RegisterList_encode(rl) == [i \in 0..31 |-> IF i <= 15 /\ rl[i] THEN 1 ELSE 0]

DataProcessingKind_encode(condition, kind) ==
    CASE kind.tag = "Move" ->
            OrW(OrW(OrW(OrW(OrW(Condition_encode(condition), Field(3, 23)),
                MoveKind_encode(kind.kind)), Field(1, 21)),
                Rd_encode(kind.destination)), ShifterOperandCode_encode(kind.shifter))
      [] kind.tag = "Comparison" ->
            OrW(OrW(OrW(OrW(Condition_encode(condition), Field(10, 21)), Field(1, 20)),
                Rn_encode(kind.source)), ShifterOperandCode_encode(kind.shifter))
      [] kind.tag = "Calculation" ->
            OrW(OrW(OrW(OrW(OrW(Condition_encode(condition), Field(4, 21)),
                SetFlags_encode(kind.set_flags)), Rn_encode(kind.source)),
                Rd_encode(kind.destination)), ShifterOperandCode_encode(kind.shifter))

\* impl Encode for InstructionKind
InstructionKind_encode(i) ==
    CASE i.tag = "Branch" ->
            OrW(OrW(OrW(Condition_encode(i.condition), Field(5, 25)),
                BranchKind_encode(i.kind)), SignedImm_encode(24, i.target))
      [] i.tag = "DataProcessing" -> DataProcessingKind_encode(i.condition, i.kind)
      [] i.tag = "LoadStore" ->
            OrW(OrW(OrW(OrW(OrW(Condition_encode(i.condition), Field(1, 26)),
                LoadStoreKind_encode(i.kind)), LoadStoreQuantity_encode(i.quantity)),
                Rd_encode(i.destination)), LoadStoreAddressCode_encode(i.address))
      [] i.tag = "LoadStoreMultiple" ->
            OrW(OrW(OrW(OrW(OrW(Condition_encode(i.condition), Field(4, 25)),
                MultipleAddressingMode_encode(i.mode)), WriteBack_encode(i.write_back)),
                Rn_encode(i.base)), RegisterList_encode(i.register_list))
      [] i.tag = "SuperVisorCall" ->
            OrW(Condition_encode(i.condition), Imm_encode(i.immediate))

\* ------------------------------------------------------------ src/decoder
InvalidInstruction == Err("InvalidInstruction")

Condition_decode(bits) ==
    LET v == range(bits, 28, 31)
    IN CASE v = 0 -> Ok("EQ")
         [] v = 1 -> Ok("NE")
         [] v = 2 -> Ok("CS")
         [] v = 3 -> Ok("CC")
         [] v = 4 -> Ok("MI")
         [] v = 6 -> Ok("VS")
         [] v = 7 -> Ok("VC")
         [] v = 8 -> Ok("HI")
         [] v = 9 -> Ok("LS")
         [] v = 10 -> Ok("GE")
         [] v = 11 -> Ok("LT")
         [] v = 12 -> Ok("GT")
         [] v = 13 -> Ok("LE")
         [] v = 14 -> Ok("AL")
         [] OTHER -> InvalidInstruction

CalculationKind_decode(bits) ==
    LET v == range(bits, 21, 24)
    IN CASE v = 4 -> Ok("ADD")
         [] v = 2 -> Ok("SUB")
         [] OTHER -> InvalidInstruction

SetFlags_decode(bits) == IF bits[20] = 1 THEN "Set" ELSE "DontSet"
Rn_decode(bits) == range(bits, 16, 19)
Rd_decode(bits) == range(bits, 12, 15)
Rs_decode(bits) == range(bits, 8, 11)
Rm_decode(bits) == range(bits, 0, 3)
Shift_decode(bits) == ShiftNames[range(bits, 5, 6) + 1]
RotatedImm8_decode(bits) == [rotate |-> range(bits, 8, 11), value |-> range(bits, 0, 7)]

\* ShiftedRegister<Imm<5>, Rm>::decode: Imm::try_from(..).unwrap()
ShiftedRegisterImm_decode(bits) ==
    LET amount == Imm_try_from(5, U32(range(bits, 7, 11)))
    IN IF amount.tag = "Ok"
       THEN Ok([tag |-> "ImmediateShift", kind |-> Shift_decode(bits),
                amount |-> amount.val, base |-> Rm_decode(bits)])
       ELSE Panic

\* ShiftedRegister<Rs, Rm>::decode
ShiftedRegisterRs_decode(bits) ==
    Ok([tag |-> "RegisterShift", kind |-> Shift_decode(bits),
        amount |-> Rs_decode(bits), base |-> Rm_decode(bits)])

ShifterOperandCode_decode(bits) ==
    IF bits[25] = 0
    THEN IF bits[4] = 0 THEN ShiftedRegisterImm_decode(bits) ELSE ShiftedRegisterRs_decode(bits)
    ELSE Ok([tag |-> "Immediate", imm |-> RotatedImm8_decode(bits)])

DataProcessingKind_decode(bits) ==
    IF range(bits, 21, 24) \in {4, 2}
    THEN LET kind == CalculationKind_decode(bits)
             shifter == ShifterOperandCode_decode(bits)
         IN IF kind.tag # "Ok" THEN kind
            ELSE IF shifter.tag # "Ok" THEN shifter
            ELSE Ok([tag |-> "Calculation", kind |-> kind.val,
                     set_flags |-> SetFlags_decode(bits), destination |-> Rd_decode(bits),
                     source |-> Rn_decode(bits), shifter |-> shifter.val])
    ELSE InvalidInstruction

LoadStoreKind_decode(bits) == IF bits[20] = 1 THEN "Load" ELSE "Store"
LoadStoreQuantity_decode(bits) == IF bits[22] = 1 THEN "Byte" ELSE "Word"
Sign_decode(bits) == IF bits[23] = 1 THEN "Positive" ELSE "Negative"

\* AddressingOffsetValue::decode: Imm::try_from(..).unwrap()
AddressingOffsetValue_decode(bits) ==
    IF bits[25] = 0
    THEN LET imm == Imm_try_from(12, U32(range(bits, 0, 11)))
         IN IF imm.tag = "Ok" THEN Ok([tag |-> "Immediate", imm |-> imm.val]) ELSE Panic
    ELSE Ok([tag |-> "Register", register |-> Rm_decode(bits)])

OffsetMode_decode(bits) ==
    CASE bits[24] = 1 /\ bits[21] = 0 -> Ok("Offset")
      [] bits[24] = 1 /\ bits[21] = 1 -> Ok("PreIndexed")
      [] bits[24] = 0 /\ bits[21] = 0 -> Ok("PostIndexed")
      [] OTHER -> InvalidInstruction

\* AddressingOffset::decode: the value is decoded before the mode
AddressingOffset_decode(bits) ==
    LET value == AddressingOffsetValue_decode(bits)
        mode == OffsetMode_decode(bits)
    IN IF value.tag # "Ok" THEN value
       ELSE IF mode.tag # "Ok" THEN mode
       ELSE Ok([sign |-> Sign_decode(bits), value |-> value.val, mode |-> mode.val])

LoadStoreAddressCode_decode(bits) ==
    LET offset == AddressingOffset_decode(bits)
    IN IF offset.tag # "Ok" THEN offset
       ELSE Ok([base |-> Rn_decode(bits), offset |-> offset.val])

\* MultipleAddressingMode::decode: (p, u, l) = (bits[20], bits[23], bits[24])
MultipleAddressingMode_decode(bits) ==
    LET p == bits[20]
        u == bits[23]
        l == bits[24]
    IN CASE <<l, p, u>> = <<1, 0, 0>> -> Ok("DecrementAfter")
         [] <<l, p, u>> = <<1, 0, 1>> -> Ok("IncrementAfter")
         [] <<l, p, u>> = <<1, 1, 0>> -> Ok("DecrementBefore")
         [] <<l, p, u>> = <<1, 1, 1>> -> Ok("IncrementBefore")
         [] OTHER -> InvalidInstruction

WriteBack_decode(bits) == IF bits[21] = 1 THEN "WriteBack" ELSE "NoWriteBack"
RegisterList_decode(bits) == [i \in 0..15 |-> bits[i] = 1]
BranchKind_decode(bits) == IF bits[24] = 1 THEN "BranchWithLink" ELSE "Branch"

\* SignedImm<24>::decode: bits 0..23, sign-extended from bit 23
SignedImm_decode(bits) ==
    LET extend_bits == IF bits[23] = 1 THEN Field(255, 24) ELSE U32(0)
    IN AsI32(OrW(Field(range(bits, 0, 23), 0), extend_bits))

\* Imm<24>::decode
Imm24_decode(bits) == range(bits, 0, 23)

\* InstructionKind::decode
InstructionKind_decode(bits) ==
    LET form == range(bits, 25, 27)
        condition == Condition_decode(bits)
    IN CASE form \in {0, 1} ->
                LET kind == DataProcessingKind_decode(bits)
                IN IF condition.tag # "Ok" THEN condition
                   ELSE IF kind.tag # "Ok" THEN kind
                   ELSE Ok([tag |-> "DataProcessing", condition |-> condition.val,
                            kind |-> kind.val])
         [] form \in {2, 3} ->
                LET address == LoadStoreAddressCode_decode(bits)
                IN IF condition.tag # "Ok" THEN condition
                   ELSE IF address.tag # "Ok" THEN address
                   ELSE Ok([tag |-> "LoadStore", condition |-> condition.val,
                            kind |-> LoadStoreKind_decode(bits),
                            quantity |-> LoadStoreQuantity_decode(bits),
                            destination |-> Rd_decode(bits), address |-> address.val])
         [] form = 4 ->
                LET mode == MultipleAddressingMode_decode(bits)
                IN IF condition.tag # "Ok" THEN condition
                   ELSE IF mode.tag # "Ok" THEN mode
                   ELSE Ok([tag |-> "LoadStoreMultiple", condition |-> condition.val,
                            kind |-> LoadStoreKind_decode(bits), mode |-> mode.val,
                            base |-> Rn_decode(bits), write_back |-> WriteBack_decode(bits),
                            register_list |-> RegisterList_decode(bits)])
         [] form = 5 ->
                IF condition.tag # "Ok" THEN condition
                ELSE Ok([tag |-> "Branch", condition |-> condition.val,
                         kind |-> BranchKind_decode(bits), target |-> SignedImm_decode(bits)])
         [] form = 7 ->
                IF condition.tag # "Ok" THEN condition
                ELSE Ok([tag |-> "SuperVisorCall", condition |-> condition.val,
                         immediate |-> Imm24_decode(bits)])
         [] OTHER -> Panic

\* ----------------------------------------------------------- src/resolver
\* Symbol::resolve against the numeric symbol table (a function from names to words)
Symbol_resolve(symbol, symbol_table) ==
    IF symbol \in DOMAIN symbol_table
    THEN Ok(symbol_table[symbol])
    ELSE Err("SymbolNotFound")

\* lhs + rhs and lhs - rhs on u32: a panic when the build checks overflow, the
\* wrapped value when it does not
Diadic_resolve(lhs, operator, rhs) ==
    CASE operator = "Plus" ->
            Let(carrying_add(lhs, rhs, 0), LAMBDA r :
                IF r.carry /\ overflow_checks THEN Panic ELSE Ok(r.sum))
      [] operator = "Minus" ->
            Let(borrowing_sub(lhs, rhs, 0), LAMBDA r :
                IF r.borrow /\ overflow_checks THEN Panic ELSE Ok(r.diff))

\* Expression::resolve; a String is its UTF-8 bytes, a Character its code point
RECURSIVE Expression_resolve(_, _)
Expression_resolve(e, symbol_table) ==
    CASE e.tag = "Number" -> Ok(e.n)
      [] e.tag = "Character" -> Ok(U32(e.c))
      [] e.tag = "String" -> IF e.s = <<>> THEN Panic ELSE Ok(U32(e.s[1]))
      [] e.tag = "Boolean" -> Ok(U32(IF e.b THEN 1 ELSE 0))
      [] e.tag = "Symbol" -> Symbol_resolve(e.name, symbol_table)
      [] e.tag = "Diadic" ->
            Let(Expression_resolve(e.lhs, symbol_table), LAMBDA lhs :
                IF lhs.tag # "Ok" THEN lhs
                ELSE Let(Expression_resolve(e.rhs, symbol_table), LAMBDA rhs :
                        IF rhs.tag # "Ok" THEN rhs
                        ELSE Diadic_resolve(lhs.val, e.operator, rhs.val)))

\* a - b on i32 values: the wrapped difference and whether it overflowed
I32Sub(a, b) ==
    LET d == borrowing_sub(a, b, 0).diff
    IN [diff |-> d, overflow |-> a[31] # b[31] /\ d[31] # a[31]]

\* StatementInstructionKind::resolve, Branch:
\* SignedImm::try_from((target_address as i32 - current_address as i32) >> 2)
Branch_resolve(i, symbol_table, current_address) ==
    Let(Symbol_resolve(i.target, symbol_table), LAMBDA target_address :
        IF target_address.tag # "Ok" THEN target_address
        ELSE Let(I32Sub(target_address.val, U32(current_address)), LAMBDA offset :
                IF overflow_checks /\ offset.overflow THEN Panic
                ELSE Let(SignedImm_try_from(24, Sar(offset.diff, 2)), LAMBDA target :
                        IF target.tag # "Ok" THEN target
                        ELSE Ok([tag |-> "Branch", condition |-> i.condition,
                                 kind |-> i.kind, target |-> target.val]))))

\* ShifterOperandExpression::resolve
ShifterOperandExpression_resolve(sh, symbol_table) ==
    CASE sh.tag = "Immediate" ->
            Let(Expression_resolve(sh.expr, symbol_table), LAMBDA value :
                IF value.tag # "Ok" THEN value
                ELSE Let(RotatedImm8_try_from(value.val), LAMBDA imm :
                        IF imm.tag # "Ok" THEN imm
                        ELSE Ok([tag |-> "Immediate", imm |-> imm.val])))
      [] sh.tag = "Register" ->
            Ok([tag |-> "ImmediateShift", kind |-> "LogicalShiftLeft",
                amount |-> Imm_try_from(5, U32(0)).val, base |-> sh.register])
      [] sh.tag = "ShiftedRegister" /\ sh.amount.tag = "Immediate" ->
            Let(Expression_resolve(sh.amount.expr, symbol_table), LAMBDA value :
                IF value.tag # "Ok" THEN value
                ELSE Let(Imm_try_from(5, value.val), LAMBDA amount :
                        IF amount.tag # "Ok" THEN amount
                        ELSE Ok([tag |-> "ImmediateShift", kind |-> sh.kind,
                                 amount |-> amount.val, base |-> sh.base])))
      [] sh.tag = "ShiftedRegister" /\ sh.amount.tag = "Register" ->
            Ok([tag |-> "RegisterShift", kind |-> sh.kind,
                amount |-> sh.amount.register, base |-> sh.base])
      [] sh.tag = "RotateRightWithExtend" ->
            Ok([tag |-> "ImmediateShift", kind |-> "RotateRight",
                amount |-> Imm_try_from(5, U32(0)).val, base |-> sh.register])

\* DataProcessingKind<ShifterOperandExpression>::resolve
DataProcessingKind_resolve(kind, symbol_table) ==
    Let(ShifterOperandExpression_resolve(kind.shifter, symbol_table), LAMBDA shifter :
        IF shifter.tag # "Ok" THEN shifter
        ELSE Ok([kind EXCEPT !.shifter = shifter.val]))

\* StatementInstructionKind::resolve (Branch, DataProcessing, LoadStoreMultiple,
\* SuperVisorCall)
StatementInstructionKind_resolve(i, symbol_table, current_address) ==
    CASE i.tag = "Branch" -> Branch_resolve(i, symbol_table, current_address)
      [] i.tag = "DataProcessing" ->
            Let(DataProcessingKind_resolve(i.kind, symbol_table), LAMBDA kind :
                IF kind.tag # "Ok" THEN kind
                ELSE Ok([tag |-> "DataProcessing", condition |-> i.condition,
                         kind |-> kind.val]))
      [] i.tag = "LoadStoreMultiple" -> Ok(i)
      [] i.tag = "SuperVisorCall" ->
            Let(Expression_resolve(i.immediate, symbol_table), LAMBDA value :
                IF value.tag # "Ok" THEN value
                ELSE Let(Imm_try_from(24, value.val), LAMBDA immediate :
                        IF immediate.tag # "Ok" THEN immediate
                        ELSE Ok([tag |-> "SuperVisorCall", condition |-> i.condition,
                                 immediate |-> immediate.val])))

\* u32::to_be_bytes / u32::from_be_bytes
to_be_bytes(w) == <<range(w, 24, 31), range(w, 16, 23), range(w, 8, 15), range(w, 0, 7)>>
from_be_bytes(b) == OrW(OrW(Field(b[1], 24), Field(b[2], 16)), OrW(Field(b[3], 8), U32(b[4])))

\* PreProcessedStatement::resolve, for instructions and data
PreProcessedStatement_resolve(statement, symbol_table, address) ==
    CASE statement.tag = "Instruction" ->
            Let(StatementInstructionKind_resolve(statement.kind, symbol_table, address),
                LAMBDA i :
                    IF i.tag # "Ok" THEN i
                    ELSE Ok([tag |-> "Instructions", instructions |-> <<i.val>>]))
      [] statement.tag = "Data" -> Ok([tag |-> "Data", data |-> statement.bytes])

\* --------------------------------------------------- the emulator at rest
\* the emulator state the specifications of the pure functions leave alone
ZeroRegisters == [r \in 0..15 |-> U32(0)]
ClearFlags == [n |-> FALSE, z |-> FALSE, c |-> FALSE, v |-> FALSE]
EmulatorIdle ==
    /\ registers = ZeroRegisters
    /\ cpsr = ClearFlags
    /\ memory = <<>>
    /\ status = "new"
    /\ steps = 0
NoCall == [op |-> "none", depth |-> 0]
\* no pre-processor and no lexer has been constructed
FrontEndIdle ==
    /\ preprocessor = <<>>
    /\ lexer = <<>>

\* ------------------------------------- specification: RotatedImm8 functions
\* the 8-bit values the inputs are built from
SeedBytes == {0, 1, 15, 127, 128, 192, 255}

\* a rotated byte, moved by at most MaxDelta (wrapping)
Nudge(w, d) ==
    IF d >= 0 THEN carrying_add(w, U32(d), 0).sum ELSE borrowing_sub(w, U32(-d), 0).diff
ImmInputs ==
    {Nudge(rotate_right(U32(b), 2 * r), d) :
        b \in SeedBytes, r \in 0..15, d \in (-MaxDelta)..MaxDelta}

ImmInit ==
    /\ overflow_checks \in BOOLEAN
    /\ input \in ImmInputs
    /\ call = NoCall
    /\ EmulatorIdle
    /\ FrontEndIdle

TryFrom ==
    /\ call.op = "none"
    /\ call' = [op |-> "try_from", depth |-> 0, ret |-> RotatedImm8_try_from(input)]
    /\ UNCHANGED <<overflow_checks, input, registers, cpsr, memory, status, steps,
                 preprocessor, lexer>>

NearestBelow ==
    /\ call.op = "none"
    /\ call' = [op |-> "nearest_below", depth |-> 0, ret |-> Ok(nearest_below(input))]
    /\ UNCHANGED <<overflow_checks, input, registers, cpsr, memory, status, steps,
                 preprocessor, lexer>>

NearestWithRemainder ==
    /\ call.op = "none"
    /\ call' = [op |-> "nearest_with_remainder", depth |-> 0,
                ret |-> nearest_with_remainder(input)]
    /\ UNCHANGED <<overflow_checks, input, registers, cpsr, memory, status, steps,
                 preprocessor, lexer>>

\* next() on the immediate the last call returned
NextImm ==
    /\ call.op \in {"nearest_below", "next"}
    /\ call.depth < MaxNext
    /\ call' = [op |-> "next", depth |-> call.depth + 1,
                ret |-> Ok(RotatedImm8_next(call.ret.val))]
    /\ UNCHANGED <<overflow_checks, input, registers, cpsr, memory, status, steps,
                 preprocessor, lexer>>

ImmNext == TryFrom \/ NearestBelow \/ NearestWithRemainder \/ NextImm

SpecImm == ImmInit /\ [][ImmNext]_vars

\* --------------------------------------- specification: encoder and decoder
\* the resolved instructions the encoder is applied to
CodecShifters ==
    {[tag |-> "Immediate", imm |-> [rotate |-> r, value |-> v]] :
        r \in {0, 11, 15}, v \in {0, 42, 255}}
    \cup {[tag |-> "ImmediateShift", kind |-> k, amount |-> a, base |-> 2] :
            k \in {ShiftNames[n] : n \in 1..4}, a \in {0, 1, 6, 31}}
    \cup {[tag |-> "RegisterShift", kind |-> k, amount |-> 3, base |-> 2] :
            k \in {ShiftNames[n] : n \in 1..4}}
CodecDataProcessing ==
    {[tag |-> "Move", kind |-> k, set_flags |-> f, destination |-> 0, shifter |-> sh] :
        k \in {"Move", "MoveNot"}, f \in {"Set", "DontSet"}, sh \in CodecShifters}
    \cup {[tag |-> "Comparison", kind |-> "CMP", source |-> 1, shifter |-> sh] :
            sh \in CodecShifters}
    \cup {[tag |-> "Calculation", kind |-> k, set_flags |-> f, destination |-> 0,
           source |-> 1, shifter |-> sh] :
            k \in {"ADD", "SUB"}, f \in {"Set", "DontSet"}, sh \in CodecShifters}
CodecOffsetValues ==
    {[tag |-> "Immediate", imm |-> v] : v \in {0, 10, 13, 14, 4095}}
    \cup {[tag |-> "Register", register |-> 2],
          [tag |-> "ScaledRegister", kind |-> "LogicalShiftLeft", amount |-> 1, base |-> 2]}
CodecRegisterLists ==
    {[i \in 0..15 |-> i \in regs] : regs \in {{}, {0}, {1, 14}, 0..15}}
CodecInstructions ==
    {[tag |-> "Branch", condition |-> c, kind |-> k, target |-> t] :
        c \in {ConditionNames[n] : n \in 1..15}, k \in {"Branch", "BranchWithLink"},
        t \in {-(2 ^ 23), -10, -1, 0, 1, 2 ^ 23 - 1}}
    \cup {[tag |-> "DataProcessing", condition |-> c, kind |-> k] :
            c \in {"AL", "PL"}, k \in CodecDataProcessing}
    \cup {[tag |-> "LoadStore", condition |-> "AL", kind |-> k, quantity |-> q,
           destination |-> 0,
           address |-> [base |-> 1, offset |-> [sign |-> sg, value |-> v, mode |-> m]]] :
            k \in {"Load", "Store"}, q \in {"Byte", "Word"}, sg \in {"Positive", "Negative"},
            v \in CodecOffsetValues, m \in {"Offset", "PreIndexed", "PostIndexed"}}
    \cup {[tag |-> "LoadStoreMultiple", condition |-> "AL", kind |-> k, mode |-> m,
           base |-> 13, write_back |-> wb, register_list |-> rl] :
            k \in {"Load", "Store"},
            m \in {"DecrementAfter", "IncrementAfter", "DecrementBefore", "IncrementBefore"},
            wb \in {"WriteBack", "NoWriteBack"}, rl \in CodecRegisterLists}
    \cup {[tag |-> "SuperVisorCall", condition |-> c, immediate |-> v] :
            c \in {"AL", "EQ"}, v \in {0, 2, 25, 2 ^ 23, 2 ^ 24 - 1}}

\* the words the decoder is applied to directly: every form in bits 25..27
CodecWords ==
    {OrW(OrW(Field(c, 28), Field(f, 25)), OrW(Field(op, 20), U32(low))) :
        c \in {0, 5, 14, 15}, f \in 0..7, op \in {0, 4, 8, 9, 18, 31},
        low \in {0, 2, 18, 13, 14, 896, 3968, 4095}}

\* the bits below the condition field in the words Condition::decode is given
CodecLowBits == {U32(0), U32(1), Field(5, 25), bottom_n(28)}

CodecInit ==
    /\ overflow_checks = TRUE
    /\ input \in {[kind |-> "instruction", ins |-> i] : i \in CodecInstructions}
                 \cup {[kind |-> "word", bits |-> w] : w \in CodecWords}
                 \cup {[kind |-> "condition", code |-> c, low |-> l] :
                         c \in 0..15, l \in CodecLowBits}
    /\ call = NoCall
    /\ EmulatorIdle
    /\ FrontEndIdle

\* i.encode()
Encode ==
    /\ call.op = "none"
    /\ input.kind = "instruction"
    /\ call' = [op |-> "encode", depth |-> 0, ret |-> Ok(InstructionKind_encode(input.ins))]
    /\ UNCHANGED <<overflow_checks, input, registers, cpsr, memory, status, steps,
                 preprocessor, lexer>>

\* InstructionKind::decode(&Bits(word)) of the word the encoder returned
DecodeEncoded ==
    /\ call.op = "encode"
    /\ call' = [op |-> "decode", depth |-> 1, ret |-> InstructionKind_decode(call.ret.val)]
    /\ UNCHANGED <<overflow_checks, input, registers, cpsr, memory, status, steps,
                 preprocessor, lexer>>

\* InstructionKind::decode(&Bits(word)) of an arbitrary word
DecodeWord ==
    /\ call.op = "none"
    /\ input.kind = "word"
    /\ call' = [op |-> "decode", depth |-> 0, ret |-> InstructionKind_decode(input.bits)]
    /\ UNCHANGED <<overflow_checks, input, registers, cpsr, memory, status, steps,
                 preprocessor, lexer>>

\* Condition::decode(&Bits(word)) of a word with the condition field given
ConditionDecode ==
    /\ call.op = "none"
    /\ input.kind = "condition"
    /\ call' = [op |-> "Condition_decode", depth |-> 0,
                ret |-> Condition_decode(OrW(Field(input.code, 28), input.low))]
    /\ UNCHANGED <<overflow_checks, input, registers, cpsr, memory, status, steps,
                 preprocessor, lexer>>

\* condition.encode() of the Condition with the discriminant given
ConditionEncode ==
    /\ call.op = "none"
    /\ input.kind = "condition"
    /\ input.code <= 14
    /\ call' = [op |-> "Condition_encode", depth |-> 0,
                ret |-> Ok(Condition_encode(ConditionNames[input.code + 1]))]
    /\ UNCHANGED <<overflow_checks, input, registers, cpsr, memory, status, steps,
                 preprocessor, lexer>>

\* Condition::decode(&Bits(word)) of the word condition.encode() returned
ConditionDecodeEncoded ==
    /\ call.op = "Condition_encode"
    /\ call' = [op |-> "Condition_decode", depth |-> 1,
                ret |-> Condition_decode(call.ret.val)]
    /\ UNCHANGED <<overflow_checks, input, registers, cpsr, memory, status, steps,
                 preprocessor, lexer>>

CodecNext ==
    \/ Encode
    \/ DecodeEncoded
    \/ DecodeWord
    \/ ConditionDecode
    \/ ConditionEncode
    \/ ConditionDecodeEncoded

SpecCodec == CodecInit /\ [][CodecNext]_vars

\* -------------------------------------- claims about the encoder and decoder
\* C1: for every representable resolved instruction i,
\* InstructionKind::decode(Bits(i.encode())) returns Ok(i).
C1_DecodeEncodeRoundTrip ==
    (call.op = "decode" /\ input.kind = "instruction") =>
        (call.ret.tag = "Ok" /\ call.ret.val.tag = input.ins.tag /\ call.ret.val = input.ins)

\* C6: for every 32-bit word w, InstructionKind::decode(Bits(w)) returns
\* Ok(instruction) or Err(InvalidInstructionError) and never panics.
C6_DecodeNeverPanics ==
    call.op = "decode" => (call.ret.tag = "Ok" \/ call.ret = InvalidInstruction)

\* ------------------------------------------------ claims about RotatedImm8
\* n is an 8-bit value rotated right by 2 * r
FitsRotate(n, r) == range(rotate_left(n, 2 * r), 8, 31) = 0
\* n is an 8-bit value rotated right by an even amount
Encodable(n) == \E r \in 0..15 : FitsRotate(n, r)
\* the largest encodable value, 0xFF000000
LargestEncodable == Shl(U32(255), 24)
\* the pair uses the smallest rotate that expresses its value
Canonical(imm) ==
    /\ imm.rotate \in 0..15
    /\ \A r \in 0..15 : FitsRotate(RotatedImm8_get(imm), r) => imm.rotate <= r
\* |a - b| of two u32 values, as a word
Distance(a, b) == IF LtU(a, b) THEN borrowing_sub(b, a, 0).diff ELSE borrowing_sub(a, b, 0).diff

\* C2: try_from(n) succeeds with get() = n for every n that is an 8-bit value
\* rotated right by an even amount, and returns UnencodableValueError for
\* every other n.
C2_TryFromExactlyEncodable ==
    call.op = "try_from" =>
        IF Encodable(input)
        THEN call.ret.tag = "Ok" /\ RotatedImm8_get(call.ret.val) = input
        ELSE call.ret = Err("UnencodableValue")

\* C3: nearest_below(n).get() <= n, and nearest_below(n).next().get() > n
\* unless no larger encodable value exists.
C3_NearestBelowBrackets ==
    /\ call.op = "nearest_below" => ~LtU(input, RotatedImm8_get(call.ret.val))
    /\ (call.op = "next" /\ call.depth = 1 /\ LtU(input, LargestEncodable)) =>
            LtU(input, RotatedImm8_get(call.ret.val))

\* C4: nearest_with_remainder(n) completes without arithmetic overflow and
\* returns (imm, r) with imm the closer of nearest_below(n) and its next(),
\* imm.get() + r = n, r >= 0 when rounded down and r < 0 when rounded up.
C4_NearestWithRemainder ==
    call.op = "nearest_with_remainder" =>
        /\ call.ret.tag = "Ok"
        /\ LET imm == call.ret.val.imm
               r == call.ret.val.remainder
               got == RotatedImm8_get(imm)
               below == nearest_below(input)
               above == RotatedImm8_next(below)
               other == IF imm = below THEN above ELSE below
           IN /\ imm \in {below, above}
              /\ ~LtU(Distance(RotatedImm8_get(other), input), Distance(got, input))
              /\ IF LtU(input, got)
                 THEN r < 0 /\ I32(r) = borrowing_sub(input, got, 0).diff
                 ELSE r >= 0 /\ I32(r) = borrowing_sub(input, got, 0).diff

\* C5: every RotatedImm8 that try_from, nearest_below, next or
\* nearest_with_remainder produces has its rotate in 0..15 and uses the
\* smallest rotate that expresses its value.
C5_ProducedImmCanonical ==
    /\ (call.op \in {"try_from", "nearest_below", "next"} /\ call.ret.tag = "Ok") =>
            Canonical(call.ret.val)
    /\ (call.op = "nearest_with_remainder" /\ call.ret.tag = "Ok") =>
            Canonical(call.ret.val.imm)

\* ----------------------------------------------------------- src/emulator
\* CPSR::condition_passed
condition_passed(flags, condition) ==
    CASE condition = "EQ" -> flags.z
      [] condition = "NE" -> ~flags.z
      [] condition = "CS" -> flags.c
      [] condition = "CC" -> ~flags.c
      [] condition = "MI" -> flags.n
      [] condition = "PL" -> ~flags.n
      [] condition = "VS" -> flags.v
      [] condition = "VC" -> ~flags.v
      [] condition = "HI" -> flags.c /\ ~flags.z
      [] condition = "LS" -> ~flags.c \/ flags.z
      [] condition = "GE" -> flags.n = flags.v
      [] condition = "LT" -> flags.n # flags.v
      [] condition = "GT" -> ~flags.z /\ (flags.n = flags.v)
      [] condition = "LE" -> flags.z \/ (flags.n # flags.v)
      [] condition = "AL" -> TRUE

\* the pair calculate_shifter returns
Shifted(value, carry) == Ok([value |-> value, carry |-> carry])

\* Emulator::calculate_shifter, ShifterOperandCode::ImmediateShift.
\* LogicalShiftRight indexes bit (amount as usize - 1) % 32: for amount 0 the
\* subtraction panics with overflow checks and wraps to bit 31 without
calculate_shifter_ImmediateShift(regs, flags, shift) ==
    Let2(regs[shift.base], shift.amount, LAMBDA base, amount :
        CASE shift.kind = "LogicalShiftLeft" ->
              Shifted(Shl(base, amount), base[(32 - amount) % 32] = 1)
          [] shift.kind = "LogicalShiftRight" ->
              IF amount = 0
              THEN IF overflow_checks THEN Panic ELSE Shifted(Shr(base, 0), base[31] = 1)
              ELSE Shifted(Shr(base, amount), base[(amount - 1) % 32] = 1)
          [] shift.kind = "ArithmeticShiftRight" ->
              IF amount = 0
              THEN IF base[31] = 1 THEN Shifted(NotW(U32(0)), TRUE)
                                   ELSE Shifted(U32(0), FALSE)
              ELSE Shifted(Sar(base, amount), base[amount - 1] = 1)
          [] shift.kind = "RotateRight" ->
              IF amount = 0
              THEN Shifted(OrW(Shl(U32(IF flags.c THEN 1 ELSE 0), 31), Shr(base, 1)),
                           base[0] = 1)
              ELSE Shifted(rotate_right(base, amount), base[amount - 1] = 1))

\* Emulator::calculate_shifter, ShifterOperandCode::RegisterShift
calculate_shifter_RegisterShift(regs, flags, shift) ==
    Let2(regs[shift.base], range(regs[shift.amount], 0, 7), LAMBDA base, amount :
        CASE shift.kind = "LogicalShiftLeft" ->
              IF amount = 0 THEN Shifted(base, flags.c)
              ELSE IF amount <= 31 THEN Shifted(Shl(base, amount), base[32 - amount] = 1)
              ELSE IF amount = 32 THEN Shifted(base, base[0] = 1)
              ELSE Shifted(U32(0), FALSE)
          [] shift.kind = "LogicalShiftRight" ->
              IF amount = 0 THEN Shifted(base, flags.c)
              ELSE IF amount <= 31 THEN Shifted(Shr(base, amount), base[amount - 1] = 1)
              ELSE IF amount = 32 THEN Shifted(base, base[0] = 1)
              ELSE Shifted(U32(0), FALSE)
          [] shift.kind = "ArithmeticShiftRight" ->
              IF amount = 0 THEN Shifted(base, flags.c)
              ELSE IF amount <= 31 THEN Shifted(Sar(base, amount), base[amount - 1] = 1)
              ELSE IF base[31] = 1 THEN Shifted(U32(0), FALSE)
              ELSE Shifted(NotW(U32(0)), TRUE)
          [] shift.kind = "RotateRight" ->
              IF amount = 0 THEN Shifted(base, flags.c)
              ELSE Let(range(regs[shift.amount], 0, 4), LAMBDA low :
                    IF low = 0 THEN Shifted(base, base[31] = 1)
                    ELSE Shifted(rotate_right(base, low), base[low - 1] = 1)))

\* Emulator::calculate_shifter
calculate_shifter(regs, flags, shifter) ==
    CASE shifter.tag = "Immediate" ->
            Let(RotatedImm8_get(shifter.imm), LAMBDA shifter_operand :
                Shifted(shifter_operand,
                        IF shifter_operand = U32(0) THEN flags.c
                        ELSE shifter_operand[31] = 1))
      [] shifter.tag = "ImmediateShift" ->
            calculate_shifter_ImmediateShift(regs, flags, shifter)
      [] shifter.tag = "RegisterShift" ->
            calculate_shifter_RegisterShift(regs, flags, shifter)

\* calculate_shifter was not called
NotCalled == [tag |-> "None"]

\* what execute leaves behind: the registers, the flags, whether it panicked,
\* and what calculate_shifter returned when it was called
Executed(regs, flags, panicked, shifter) ==
    [registers |-> regs, cpsr |-> flags, panicked |-> panicked, shifter |-> shifter]

\* execute on a Branch with the condition left out
execute_Branch_unconditional(regs, flags, i) ==
    Executed([regs EXCEPT ![14] = IF i.kind = "BranchWithLink" THEN regs[15] ELSE regs[14],
                          ![15] = carrying_add(regs[15], I32(i.target * 4), 0).sum],
             flags, FALSE, NotCalled)

\* Emulator::execute, InstructionKind::Branch: registers[15] was advanced by
\* step before; the i32 addition panics on overflow with overflow checks
execute_Branch(regs, flags, i) ==
    IF ~condition_passed(flags, i.condition) THEN Executed(regs, flags, FALSE, NotCalled)
    ELSE Let2(IF i.kind = "BranchWithLink" THEN [regs EXCEPT ![14] = regs[15]] ELSE regs,
              I32(i.target * 4),
              LAMBDA linked, offset :
            Let(carrying_add(linked[15], offset, 0).sum, LAMBDA pc :
                IF overflow_checks /\ linked[15][31] = offset[31] /\ pc[31] # offset[31]
                THEN Executed(linked, flags, TRUE, NotCalled)
                ELSE Executed([linked EXCEPT ![15] = pc], flags, FALSE, NotCalled)))

\* the flags ADD, SUB and CMP store: v is taken from checked_add / checked_sub
ArithmeticFlags(result, c, v) ==
    [n |-> result[31] = 1, z |-> result = U32(0), c |-> c, v |-> v]

\* Emulator::execute, InstructionKind::DataProcessing
execute_DataProcessing(regs, flags, i) ==
    IF ~condition_passed(flags, i.condition) THEN Executed(regs, flags, FALSE, NotCalled)
    ELSE Let2(i.kind, calculate_shifter(regs, flags, i.kind.shifter), LAMBDA kind, shifter :
        IF shifter.tag = "Panic" THEN Executed(regs, flags, TRUE, shifter)
        ELSE CASE kind.tag = "Calculation" /\ kind.kind = "ADD" ->
                    Let(carrying_add(regs[kind.source], shifter.val.value, 0), LAMBDA r :
                        Executed([regs EXCEPT ![kind.destination] = r.sum],
                                 IF kind.set_flags = "Set"
                                 THEN ArithmeticFlags(r.sum, r.carry, r.carry)
                                 ELSE flags,
                                 FALSE, shifter))
               [] kind.tag = "Calculation" /\ kind.kind = "SUB" ->
                    Let(borrowing_sub(regs[kind.source], shifter.val.value, 0), LAMBDA r :
                        Executed([regs EXCEPT ![kind.destination] = r.diff],
                                 IF kind.set_flags = "Set"
                                 THEN ArithmeticFlags(r.diff, ~r.borrow, r.borrow)
                                 ELSE flags,
                                 FALSE, shifter))
               [] kind.tag = "Comparison" ->
                    Let(borrowing_sub(regs[kind.source], shifter.val.value, 0), LAMBDA r :
                        Executed(regs, ArithmeticFlags(r.diff, ~r.borrow, r.borrow),
                                 FALSE, shifter))
               [] kind.tag = "Move" ->
                    Let(IF kind.kind = "MoveNot" THEN NotW(shifter.val.value)
                        ELSE shifter.val.value,
                        LAMBDA result :
                        Executed([regs EXCEPT ![kind.destination] = result],
                                 IF kind.set_flags = "Set"
                                 THEN [flags EXCEPT !.n = result[31] = 1,
                                                    !.z = result = U32(0),
                                                    !.c = shifter.val.carry]
                                 ELSE flags,
                                 FALSE, shifter)))

\* execute with a Move that clears V whenever it sets the flags
execute_Move_clears_V(regs, flags, i) ==
    CASE i.tag = "Branch" -> execute_Branch(regs, flags, i)
      [] i.tag = "DataProcessing" ->
            Let(execute_DataProcessing(regs, flags, i), LAMBDA done :
                IF i.kind.tag = "Move" /\ i.kind.set_flags = "Set"
                THEN [done EXCEPT !.cpsr.v = FALSE] ELSE done)
      [] OTHER -> Executed(regs, flags, TRUE, NotCalled)

\* Emulator::execute: every other instruction reaches todo!()
execute(regs, flags, i) ==
    CASE i.tag = "Branch" -> execute_Branch(regs, flags, i)
      [] i.tag = "DataProcessing" -> execute_DataProcessing(regs, flags, i)
      [] OTHER -> Executed(regs, flags, TRUE, NotCalled)

\* self.memory[address]: a byte never written is 0
ReadByte(m, address) == IF address \in DOMAIN m THEN m[address] ELSE 0

\* self.memory[address] = byte
WriteByte(m, address, byte) ==
    [a \in DOMAIN m \cup {address} |-> IF a = address THEN byte ELSE m[a]]

\* the byte loops of assemble: writing stops with a panic at the first address
\* outside the array, the bytes before it stay written
RECURSIVE WriteBytes(_, _, _)
WriteBytes(m, address, bytes) ==
    IF bytes = <<>> THEN [memory |-> m, panicked |-> FALSE]
    ELSE IF address >= MemorySize THEN [memory |-> m, panicked |-> TRUE]
    ELSE WriteBytes(WriteByte(m, address, Head(bytes)), address + 1, Tail(bytes))

\* the bytes assemble writes for a resolved statement
RECURSIVE EncodedBytes(_)
EncodedBytes(instructions) ==
    IF instructions = <<>> THEN <<>>
    ELSE to_be_bytes(InstructionKind_encode(Head(instructions)))
            \o EncodedBytes(Tail(instructions))
StatementBytes(resolved) ==
    IF resolved.tag = "Instructions" THEN EncodedBytes(resolved.instructions)
    ELSE resolved.data

\* the statement loop of assemble from statement k on: the first statement
\* that fails to resolve ends it, what was written before stays
RECURSIVE WriteStatements(_, _, _)
WriteStatements(m, program, k) ==
    IF k > Len(program.statements) THEN [memory |-> m, ret |-> Ok("assembled")]
    ELSE Let(PreProcessedStatement_resolve(program.statements[k].statement,
                 program.symbol_table, program.statements[k].address),
             LAMBDA statement :
        IF statement.tag # "Ok" THEN [memory |-> m, ret |-> statement]
        ELSE Let(WriteBytes(m, program.statements[k].address, StatementBytes(statement.val)),
                 LAMBDA written :
            IF written.panicked THEN [memory |-> written.memory, ret |-> Panic]
            ELSE WriteStatements(written.memory, program, k + 1)))

\* step that advances the program counter only once the word has decoded
step_advances_after_decode(regs, flags, m) ==
    Let(range(regs[15], 0, 15), LAMBDA address :
        IF ~(range(regs[15], 16, 31) = 0 /\ address + 4 <= MemorySize)
        THEN [registers |-> regs, cpsr |-> flags, ret |-> Panic,
              instruction |-> NotCalled, shifter |-> NotCalled]
        ELSE Let(InstructionKind_decode(
                     from_be_bytes([k \in 1..4 |-> ReadByte(m, address + k - 1)])),
                 LAMBDA instruction :
            IF instruction.tag # "Ok"
            THEN [registers |-> regs, cpsr |-> flags, ret |-> instruction,
                  instruction |-> instruction, shifter |-> NotCalled]
            ELSE Let(execute([regs EXCEPT ![15] = carrying_add(regs[15], U32(4), 0).sum],
                             flags, instruction.val),
                     LAMBDA done :
                    [registers |-> done.registers, cpsr |-> done.cpsr,
                     ret |-> IF done.panicked THEN Panic ELSE Ok("stepped"),
                     instruction |-> instruction, shifter |-> done.shifter])))

\* Emulator::step on the registers, flags and memory given: the slice
\* memory[address..address + 4] panics when it ends outside the array; the
\* program counter is advanced before the word is decoded
step(regs, flags, m) ==
    Let(range(regs[15], 0, 15), LAMBDA address :
        IF ~(range(regs[15], 16, 31) = 0 /\ address + 4 <= MemorySize)
        THEN [registers |-> regs, cpsr |-> flags, ret |-> Panic,
              instruction |-> NotCalled, shifter |-> NotCalled]
        ELSE Let2([regs EXCEPT ![15] = carrying_add(regs[15], U32(4), 0).sum],
                  InstructionKind_decode(
                      from_be_bytes([k \in 1..4 |-> ReadByte(m, address + k - 1)])),
                  LAMBDA advanced, instruction :
            IF instruction.tag # "Ok"
            THEN [registers |-> advanced, cpsr |-> flags, ret |-> instruction,
                  instruction |-> instruction, shifter |-> NotCalled]
            ELSE Let(execute(advanced, flags, instruction.val), LAMBDA done :
                    [registers |-> done.registers, cpsr |-> done.cpsr,
                     ret |-> IF done.panicked THEN Panic ELSE Ok("stepped"),
                     instruction |-> instruction, shifter |-> done.shifter])))

\* Emulator::assemble from the pre-processed program on: the statements are
\* resolved and written in order, then the program counter is set
assemble(regs, m, program) ==
    Let(WriteStatements(m, program, 1), LAMBDA written :
        [memory |-> written.memory, ret |-> written.ret,
         registers |-> IF written.ret.tag = "Ok"
                       THEN [regs EXCEPT ![15] = U32(program.entry_point)]
                       ELSE regs])

\* --------------------------------------------- specification: the emulator
\* the pre-processed programs handed to assemble: the entry point, the
\* addressed statements and the resolved symbol table
Program(entry_point, statements, symbol_table) ==
    [entry_point |-> entry_point, statements |-> statements,
     symbol_table |-> symbol_table]
At(address, statement) == [address |-> address, statement |-> statement]
Instruction(kind) == [tag |-> "Instruction", kind |-> kind]
Data(bytes) == [tag |-> "Data", bytes |-> bytes]
NoSymbols == [name \in {} |-> U32(0)]

\* `B label` / `BL label` at address A with `label` defined at address L
\* (a word of data stands at L unless the branch itself does)
BranchProgram(condition, kind, A, L) ==
    Program(A,
            <<At(A, Instruction([tag |-> "Branch", condition |-> condition,
                                 kind |-> kind, target |-> "label"]))>>
              \o (IF L = A THEN <<>> ELSE <<At(L, Data(<<0, 0, 0, 0>>))>>),
            [name \in {"label"} |-> U32(L)])

\* where the branch and its label stand: word offsets 0, 1, -2, 20, 21, -21, -22
BranchPlaces ==
    {<<0, 0>>, <<0, 4>>, <<8, 0>>, <<8, 88>>, <<64, 148>>, <<84, 0>>, <<88, 0>>}

BranchPrograms ==
    {BranchProgram(c, "Branch", 8, 0) : c \in {ConditionNames[n] : n \in 1..15}}
    \cup {BranchProgram("AL", k, p[1], p[2]) :
        k \in {"Branch", "BranchWithLink"}, p \in BranchPlaces}

\* one instruction statement at address 0
Number(n) == [tag |-> "Number", n |-> U32(n)]
RegisterOperand(r) == [tag |-> "Register", register |-> r]
ImmediateOperand(n) == [tag |-> "Immediate", expr |-> Number(n)]
SourceInstructions ==
    {[tag |-> "DataProcessing", condition |-> "AL", kind |-> k] : k \in
        {[tag |-> "Calculation", kind |-> "ADD", set_flags |-> "DontSet",
          destination |-> 0, source |-> 1, shifter |-> RegisterOperand(2)],
         [tag |-> "Calculation", kind |-> "ADD", set_flags |-> "Set",
          destination |-> 0, source |-> 1, shifter |-> ImmediateOperand(1)],
         [tag |-> "Calculation", kind |-> "SUB", set_flags |-> "Set",
          destination |-> 0, source |-> 1, shifter |-> RegisterOperand(2)],
         [tag |-> "Calculation", kind |-> "ADD", set_flags |-> "Set",
          destination |-> 0, source |-> 1, shifter |-> ImmediateOperand(257)],
         [tag |-> "Calculation", kind |-> "ADD", set_flags |-> "Set",
          destination |-> 0, source |-> 1,
          shifter |-> [tag |-> "ShiftedRegister", kind |-> "LogicalShiftRight",
                       amount |-> ImmediateOperand(3), base |-> 2]],
         [tag |-> "Comparison", kind |-> "CMP", source |-> 1,
          shifter |-> RegisterOperand(2)],
         [tag |-> "Move", kind |-> "Move", set_flags |-> "Set", destination |-> 0,
          shifter |-> ImmediateOperand(1)]}}
    \cup {[tag |-> "SuperVisorCall", condition |-> "AL", immediate |-> Number(2)]}
SourcePrograms == {Program(0, <<At(0, Instruction(i))>>, NoSymbols) : i \in SourceInstructions}

\* one word of data (DEFW) at address 0, executed as an instruction: the
\* data-processing layout cond 00 I opcode S Rn Rd operand
DataProcessingWord(cond, I, opcode, S, rn, rd, operand) ==
    OrW(OrW(OrW(Field(cond, 28), Field(I, 25)), OrW(Field(opcode, 21), Field(S, 20))),
        OrW(OrW(Field(rn, 16), Field(rd, 12)), U32(operand)))
\* operand bits of Rm shifted by an immediate / by the register Rs
ShiftByImmediate(kind, amount, rm) == amount * 128 + kind * 32 + rm
ShiftByRegister(kind, rs, rm) == rs * 256 + kind * 32 + 16 + rm
OpcodeADD == 4
OpcodeSUB == 2
MachineWords ==
    \* ADDS R0, R1, R2 under every condition code
    {DataProcessingWord(c, 0, OpcodeADD, 1, 1, 0, ShiftByImmediate(0, 0, 2)) : c \in 0..14}
    \* ADDS R0, R1, R2, <shift> #0 and #1
    \cup {DataProcessingWord(14, 0, OpcodeADD, 1, 1, 0, ShiftByImmediate(k, a, 2)) :
            k \in 0..3, a \in {0, 1}}
    \* SUBS / ADD / SUB R0, R1, R2
    \cup {DataProcessingWord(14, 0, OpcodeSUB, 1, 1, 0, ShiftByImmediate(0, 0, 2)),
          DataProcessingWord(14, 0, OpcodeADD, 0, 1, 0, ShiftByImmediate(0, 0, 2)),
          DataProcessingWord(14, 0, OpcodeSUB, 0, 1, 0, ShiftByImmediate(0, 0, 2))}
    \* ADDS / SUBS R0, R1, #1
    \cup {DataProcessingWord(14, 1, op, 1, 1, 0, 1) : op \in {OpcodeADD, OpcodeSUB}}
    \* ADDS R0, R1, R2, <shift> R3
    \cup {DataProcessingWord(14, 0, OpcodeADD, 1, 1, 0, ShiftByRegister(k, 3, 2)) : k \in 0..3}
    \* LDR R0, [R0] and a coprocessor word
    \cup {OrW(Field(14, 28), Field(89, 20) ), OrW(Field(14, 28), Field(12, 24))}
WordPrograms == {Program(0, <<At(0, Data(to_be_bytes(w)))>>, NoSymbols) : w \in MachineWords}

\* programs at the top of memory: three bytes of data at 0xFFFC with the
\* entry point there, one byte of data at 0xFFFF, `ADD R0, R1, R2` at 0xFFFC,
\* at 0xFFF8 and (unaligned) at 0xFFFB
TopOfMemory == 65535
AddWord == DataProcessingWord(14, 0, OpcodeADD, 0, 1, 0, ShiftByImmediate(0, 0, 2))
EdgePrograms ==
    {Program(TopOfMemory - 3, <<At(TopOfMemory - 3, Data(<<0, 0, 0>>))>>, NoSymbols),
     Program(TopOfMemory, <<At(TopOfMemory, Data(<<1>>))>>, NoSymbols)}
    \cup {Program(a, <<At(a, Data(to_be_bytes(AddWord)))>>, NoSymbols) :
            a \in {TopOfMemory - 3, TopOfMemory - 4, TopOfMemory - 7}}

Programs == BranchPrograms \cup SourcePrograms \cup WordPrograms \cup EdgePrograms

\* the register values and flags an emulator is handed over with: every
\* combination of flags over one pair of operands, the corner values of R1
\* and R2 with the carry clear, those of R2 with it set, and shift amounts
\* in R3
Flags == [n : BOOLEAN, z : BOOLEAN, c : BOOLEAN, v : BOOLEAN]
MaxI32 == U32(2147483647)
MinI32 == NotW(MaxI32)
CornerWords == {U32(0), U32(1), MaxI32, MinI32, NotW(U32(0))}
Loaded(r1, r2, r3) == [ZeroRegisters EXCEPT ![1] = r1, ![2] = r2, ![3] = r3]
StartStates ==
    {[registers |-> Loaded(U32(1), U32(1), U32(0)), cpsr |-> f] : f \in Flags}
    \cup {[registers |-> Loaded(a, b, U32(0)), cpsr |-> ClearFlags] :
            a \in CornerWords, b \in CornerWords \ {MaxI32}}
    \cup {[registers |-> Loaded(U32(1), b, U32(0)), cpsr |-> [ClearFlags EXCEPT !.c = TRUE]] :
            b \in CornerWords \ {MaxI32}}
    \cup {[registers |-> Loaded(U32(1), OrW(MinI32, U32(1)), U32(k)), cpsr |-> ClearFlags] :
            k \in {1, 32, 33}}

Init ==
    /\ overflow_checks \in BOOLEAN
    /\ \E s \in StartStates : registers = s.registers /\ cpsr = s.cpsr
    /\ memory = <<>>
    /\ status = "new"
    /\ steps = 0
    /\ input = <<>>
    /\ call = NoCall
    /\ FrontEndIdle

\* Emulator::assemble, once, on a fresh emulator
Assemble ==
    /\ status = "new"
    /\ \E program \in Programs :
        \E done \in {assemble(registers, memory, program)} :
           /\ input' = program
           /\ registers' = done.registers
           /\ memory' = done.memory
           /\ status' = CASE done.ret.tag = "Ok" -> "loaded"
                          [] done.ret.tag = "Err" -> "error"
                          [] done.ret.tag = "Panic" -> "panic"
           /\ call' = [op |-> "assemble", depth |-> 0, ret |-> done.ret]
    /\ UNCHANGED <<overflow_checks, cpsr, steps, preprocessor, lexer>>

\* Emulator::step; a panic ends the run
Step ==
    /\ status # "panic"
    /\ steps < MaxSteps
    /\ \E done \in {step(registers, cpsr, memory)} :
          /\ registers' = done.registers
          /\ cpsr' = done.cpsr
          /\ status' = CASE done.ret.tag = "Ok" -> "ok"
                         [] done.ret.tag = "Err" -> "invalid"
                         [] done.ret.tag = "Panic" -> "panic"
          /\ call' = [op |-> "step", depth |-> 0, ret |-> done.ret,
                      before |-> [registers |-> registers, cpsr |-> cpsr,
                                  status |-> status],
                      instruction |-> done.instruction, shifter |-> done.shifter]
    /\ steps' = steps + 1
    /\ UNCHANGED <<overflow_checks, input, memory, preprocessor, lexer>>

Next == Assemble \/ Step

Spec == Init /\ [][Next]_vars

\* ------------------------------------------------- claims on the emulator
\* step() has just run on a program that assemble accepted
SteppedAfterAssemble == call.op = "step" /\ call.before.status = "loaded"

\* the program is `B label` at its entry point, and step() ran from there
SteppedBranch ==
    /\ SteppedAfterAssemble
    /\ input.statements[1].statement.tag = "Instruction"
    /\ input.statements[1].statement.kind.tag = "Branch"
    /\ input.statements[1].statement.kind.kind = "Branch"
    /\ input.statements[1].statement.kind.condition = "AL"
    /\ call.before.registers[15] = U32(input.statements[1].address)

\* C7: after assembling `B label` at address A with label at address L and
\* one step() from PC = A, the program counter is L + 8
C7_BranchLandsAtLabelPlus8 ==
    SteppedBranch =>
        /\ call.ret.tag = "Ok"
        /\ registers[15] = carrying_add(input.symbol_table["label"], U32(8), 0).sum

\* step() decoded a Branch or DataProcessing instruction whose condition
\* fails against the flags it started from
ConditionFailed(flags, instruction) ==
    /\ instruction.tag = "Ok"
    /\ instruction.val.tag \in {"Branch", "DataProcessing"}
    /\ ~condition_passed(flags, instruction.val.condition)

\* C8: when step() decodes a Branch or DataProcessing instruction whose
\* condition fails, it returns Ok and changes nothing but the program counter,
\* which grows by 4: registers, flags and memory stay as they were
C8_FailedConditionOnlyAdvances ==
    [][(call'.op = "step" /\ steps' = steps + 1
            /\ ConditionFailed(cpsr, call'.instruction))
        => /\ call'.ret.tag = "Ok"
           /\ registers' = [registers EXCEPT ![15] = carrying_add(registers[15], U32(4), 0).sum]
           /\ cpsr' = cpsr
           /\ memory' = memory
           /\ overflow_checks' = overflow_checks]_vars

\* C8 happens: step() skipped a conditional branch backwards from address 8,
\* which a taken branch would have left at address 4
C8_Witness_BranchSkipped ==
    /\ call.op = "step"
    /\ ConditionFailed(call.before.cpsr, call.instruction)
    /\ call.instruction.val.tag = "Branch"
    /\ call.instruction.val.target < 0
    /\ registers[15] = U32(12)

\* step() has just executed the data-processing instruction it decoded: its
\* condition passed and the barrel shifter returned a value
ExecutedDataProcessing ==
    /\ call.op = "step"
    /\ call.instruction.tag = "Ok"
    /\ call.instruction.val.tag = "DataProcessing"
    /\ condition_passed(call.before.cpsr, call.instruction.val.condition)

\* signed (two's-complement) overflow of a + b and of a - b with result r
SignedAddOverflow(a, b, r) == a[31] = b[31] /\ r[31] # a[31]
SignedSubOverflow(a, b, r) == a[31] # b[31] /\ r[31] # a[31]

\* the flags the claim gives ADDS and SUBS/CMP on operands a and s
ExpectedAddFlags(a, s) ==
    LET r == carrying_add(a, s, 0)
    IN [n |-> r.sum[31] = 1, z |-> r.sum = U32(0), c |-> r.carry,
        v |-> SignedAddOverflow(a, s, r.sum)]
ExpectedSubFlags(a, s) ==
    LET r == borrowing_sub(a, s, 0)
    IN [n |-> r.diff[31] = 1, z |-> r.diff = U32(0), c |-> ~r.borrow,
        v |-> SignedSubOverflow(a, s, r.diff)]

\* C9: ADD or SUB with set_flags, or CMP, on register value Rn and shifter
\* value s leaves N = bit 31 of the result, Z = (result = 0), C = carry out
\* (ADD) or no borrow (SUB, CMP) and V = signed overflow of the operation
C9_ArithmeticFlags ==
    (ExecutedDataProcessing /\ call.shifter.tag = "Ok") =>
        LET kind == call.instruction.val.kind
            a == call.before.registers[kind.source]
            s == call.shifter.val.value
        IN CASE kind.tag = "Calculation" /\ kind.set_flags = "Set" /\ kind.kind = "ADD" ->
                    cpsr = ExpectedAddFlags(a, s)
             [] kind.tag = "Calculation" /\ kind.set_flags = "Set" /\ kind.kind = "SUB" ->
                    cpsr = ExpectedSubFlags(a, s)
             [] kind.tag = "Comparison" -> cpsr = ExpectedSubFlags(a, s)
             [] OTHER -> TRUE

\* C10: for an ImmediateShift operand with amount 0 and b = R[Rm] the barrel
\* shifter returns, without panicking: LSL -> (b, C); LSR -> (0, bit 31 of b);
\* ASR -> (0xFFFFFFFF if b is negative else 0, bit 31 of b);
\* ROR -> ((C << 31) | (b >> 1), bit 0 of b)
C10_ImmediateShiftByZero ==
    (/\ ExecutedDataProcessing
     /\ call.instruction.val.kind.shifter.tag = "ImmediateShift"
     /\ call.instruction.val.kind.shifter.amount = 0) =>
        LET shift == call.instruction.val.kind.shifter
            b == call.before.registers[shift.base]
            C == call.before.cpsr.c
        IN call.shifter =
             CASE shift.kind = "LogicalShiftLeft" -> Shifted(b, C)
               [] shift.kind = "LogicalShiftRight" -> Shifted(U32(0), b[31] = 1)
               [] shift.kind = "ArithmeticShiftRight" ->
                     Shifted(IF b[31] = 1 THEN NotW(U32(0)) ELSE U32(0), b[31] = 1)
               [] shift.kind = "RotateRight" ->
                     Shifted(OrW(Shl(U32(IF C THEN 1 ELSE 0), 31), Shr(b, 1)), b[0] = 1)

\* ------------------------------------ specification: resolving immediates
\* the values handed to Imm<N>::try_from, around 2 ^ N (exclusive or) and
\* around the N-bit bound, for the three widths the program uses
ImmWidths == {5, 12, 24}
ImmValues ==
    {0, 1, 6, 7, 8, 13, 14, 15, 25, 26, 27, 31, 32, 33, 4095, 4096, 4097,
     16777215, 16777216, 16777217, 2147483647}

\* a branch at address A whose target symbol stands at address T: the word
\* distances around the bound written 2 ^ (N - 1) and around the 24-bit bound
BranchAddresses == {0, 88, 33554436}
BranchDistances ==
    {-8388609, -8388608, -8388607, -23, -22, -21, -20, -1, 0, 1, 19, 20, 21, 22,
     8388607, 8388608, 8388609}
ResolveInputs ==
    {[tag |-> "Imm", N |-> N, v |-> v] : N \in ImmWidths, v \in ImmValues}
    \cup {[tag |-> "Branch", A |-> A, T |-> A + 4 * d + o, kind |-> k] :
            A \in BranchAddresses,
            d \in BranchDistances,
            o \in {0, 2}, k \in {"Branch", "BranchWithLink"}}

ResolveInit ==
    /\ overflow_checks \in BOOLEAN
    /\ input \in {i \in ResolveInputs : i.tag = "Branch" => i.T >= 0}
    /\ call = NoCall
    /\ EmulatorIdle
    /\ FrontEndIdle

\* Imm::<N>::try_from(v)
ImmTryFrom ==
    /\ call.op = "none"
    /\ input.tag = "Imm"
    /\ call' = [op |-> "Imm_try_from", depth |-> 0,
                ret |-> Imm_try_from(input.N, U32(input.v))]
    /\ UNCHANGED <<overflow_checks, input, registers, cpsr, memory, status, steps,
                 preprocessor, lexer>>

\* resolving `SVC v`
ResolveSuperVisorCall ==
    /\ call.op = "none"
    /\ input.tag = "Imm"
    /\ input.N = 24
    /\ call' = [op |-> "resolve_svc", depth |-> 0,
                ret |-> StatementInstructionKind_resolve(
                            [tag |-> "SuperVisorCall", condition |-> "AL",
                             immediate |-> Number(input.v)], NoSymbols, 0)]
    /\ UNCHANGED <<overflow_checks, input, registers, cpsr, memory, status, steps,
                 preprocessor, lexer>>

\* resolving `B target` / `BL target` at address A
ResolveBranch ==
    /\ call.op = "none"
    /\ input.tag = "Branch"
    /\ call' = [op |-> "resolve_branch", depth |-> 0,
                ret |-> StatementInstructionKind_resolve(
                            [tag |-> "Branch", condition |-> "AL",
                             kind |-> input.kind, target |-> "target"],
                            [name \in {"target"} |-> U32(input.T)], input.A)]
    /\ UNCHANGED <<overflow_checks, input, registers, cpsr, memory, status, steps,
                 preprocessor, lexer>>

ResolveNext == ImmTryFrom \/ ResolveSuperVisorCall \/ ResolveBranch

SpecResolve == ResolveInit /\ [][ResolveNext]_vars

\* C12: Imm<N>::try_from(v) returns Ok (holding v) exactly when v < 2^N and
\* UnencodableValueError otherwise, for N = 5, 12 and 24; every SVC immediate
\* below 2^24 resolves successfully.
C12_ImmFitsExactlyNBits ==
    /\ call.op = "Imm_try_from" =>
        IF input.v < 2 ^ input.N
        THEN call.ret = Ok(input.v)
        ELSE call.ret = Err("UnencodableValue")
    /\ (call.op = "resolve_svc" /\ input.v < 2 ^ 24) =>
        call.ret = Ok([tag |-> "SuperVisorCall", condition |-> "AL",
                       immediate |-> input.v])

\* C13: resolving a Branch at address A to a target at address T succeeds with
\* target_imm24 = (T - A) >> 2 exactly when -2^23 <= (T - A) >> 2 < 2^23, and
\* fails with UnencodableSignedValue otherwise.
C13_BranchOffsetFits24Bits ==
    call.op = "resolve_branch" =>
        LET d == (input.T - input.A) \div 4
        IN IF -(2 ^ 23) <= d /\ d < 2 ^ 23
           THEN call.ret = Ok([tag |-> "Branch", condition |-> "AL",
                               kind |-> input.kind, target |-> d])
           ELSE call.ret = Err("UnencodableSignedValue")

\* the addresses assemble writes for the program: those of its statements' bytes
WrittenAddresses(program) ==
    UNION {LET st == program.statements[k]
               n == IF st.statement.tag = "Data" THEN Len(st.statement.bytes) ELSE 4
           IN st.address..(st.address + n - 1) : k \in DOMAIN program.statements}

\* C16: emulator memory holds 64 KiB: every address in 0..=0xFFFF is a valid
\* byte location, so assemble writing bytes at addresses up to 0xFFFF and
\* step() fetching the word at 0xFFFC..=0xFFFF do not fail on bounds
C16_MemoryHolds64KiB ==
    /\ (call.op = "assemble" /\ WrittenAddresses(input) \subseteq 0..TopOfMemory)
        => call.ret.tag # "Panic"
    /\ (call.op = "step" /\ call.before.registers[15] = U32(TopOfMemory - 3))
        => call.instruction.tag # "None"

\* ------------------------------------------ claims about the instruction word
\* C19: Condition::decode maps each of the fifteen values 0000..1110 in
\* bits[31:28] to the Condition whose numeric encoding is that value (so it
\* inverts Condition::encode for all 15 conditions) and rejects 1111 with
\* InvalidInstructionError
C19_ConditionDecodeInvertsEncode ==
    call.op = "Condition_decode" =>
        IF input.code <= 14
        THEN call.ret = Ok(ConditionNames[input.code + 1])
        ELSE call.ret = InvalidInstruction

\* the encoder has returned the word of an ADD or SUB instruction
EncodedCalculation ==
    /\ call.op = "encode"
    /\ input.kind = "instruction"
    /\ input.ins.tag = "DataProcessing"
    /\ input.ins.kind.tag = "Calculation"

\* the shifter field of the DataProc layout for the operand given
ShifterLayout(w, sh) ==
    CASE sh.tag = "ImmediateShift" ->
            /\ range(w, 7, 11) = sh.amount
            /\ range(w, 5, 6) = ShiftCode(sh.kind)
            /\ w[4] = 0
            /\ range(w, 0, 3) = sh.base
      [] sh.tag = "RegisterShift" ->
            /\ range(w, 8, 11) = sh.amount
            /\ range(w, 5, 6) = ShiftCode(sh.kind)
            /\ w[4] = 1
            /\ range(w, 0, 3) = sh.base
      [] OTHER -> TRUE

\* C20: the word of a DataProcessing instruction follows the DataProc layout:
\* bits[27:26] = 00, I[25] = 1 exactly for an immediate shifter, opcode[24:21]
\* = 0100 for ADD and 0010 for SUB, S[20] from set_flags, Rn at [19:16], Rd at
\* [15:12]; an immediate shift has imm5 at [11:7], shift at [6:5], bit 4 = 0,
\* Rm at [3:0]; a register shift has Rs at [11:8], shift at [6:5], bit 4 = 1,
\* Rm at [3:0]
C20_DataProcessingLayout ==
    EncodedCalculation =>
        LET w == call.ret.val
            k == input.ins.kind
        IN /\ range(w, 26, 27) = 0
           /\ w[25] = (IF k.shifter.tag = "Immediate" THEN 1 ELSE 0)
           /\ range(w, 21, 24) = (IF k.kind = "ADD" THEN OpcodeADD ELSE OpcodeSUB)
           /\ w[20] = (IF k.set_flags = "Set" THEN 1 ELSE 0)
           /\ range(w, 16, 19) = k.source
           /\ range(w, 12, 15) = k.destination
           /\ ShifterLayout(w, k.shifter)

\* ------------------------------------------------------- src/preprocessor
\* Option values
None == [tag |-> "None"]
Some(v) == [tag |-> "Some", val |-> v]

\* HashMap::insert
Insert(map, key, value) ==
    [k \in DOMAIN map \cup {key} |-> IF k = key THEN value ELSE map[k]]

\* PreProcessor::new
PreProcessor_new ==
    [statements |-> <<>>, symbol_table |-> <<>>, entry_point |-> 0,
     source_map |-> <<>>, address |-> 0, label_queue |-> <<>>]

\* for label in self.label_queue.drain(..) { self.symbol_table.insert(Symbol(label), value) }
RECURSIVE InsertLabels(_, _, _)
InsertLabels(symbol_table, label_queue, value) ==
    IF label_queue = <<>> THEN symbol_table
    ELSE InsertLabels(Insert(symbol_table, Head(label_queue), value), Tail(label_queue), value)

\* Expression::Number { base: 10, n: address as u32 }
AddressNumber(address) == [tag |-> "Number", base |-> 10, n |-> U32(address)]

\* insert_addressed_statement binding the queued labels to the address after
\* the statement instead of the address it starts at
insert_addressed_statement_after(self, statement, size, source_line) ==
    [self EXCEPT
        !.symbol_table = InsertLabels(@, self.label_queue, AddressNumber(self.address + size)),
        !.label_queue = <<>>,
        !.source_map = Insert(@, self.address, source_line),
        !.statements = Append(@, [address |-> self.address, statement |-> statement]),
        !.address = self.address + size]

\* PreProcessor::insert_addressed_statement
insert_addressed_statement(self, statement, size, source_line) ==
    [self EXCEPT
        !.symbol_table = InsertLabels(@, self.label_queue, AddressNumber(self.address)),
        !.label_queue = <<>>,
        !.source_map = Insert(@, self.address, source_line),
        !.statements = Append(@, [address |-> self.address, statement |-> statement]),
        !.address = self.address + size]

\* BytesDefinition::into_iter and BytesDefinitionIter::next: the item returned
\* and the iterator afterwards (next() leaves self.index as it is)
BytesDefinition_into_iter(definition) == [bytes |-> definition, index |-> 0]
BytesDefinitionIter_next(self) ==
    [item |-> CASE self.bytes.tag = "Byte" ->
                    IF self.index = 0 THEN Some(self.bytes.byte) ELSE None
                [] self.bytes.tag = "String" ->
                    IF self.index < Len(self.bytes.string)
                    THEN Some(self.bytes.string[self.index + 1])
                    ELSE None,
     iter |-> self]

\* bytes.into_iter().flat_map(|bytes| bytes.into_iter()): the adapter holds
\* the definitions not yet opened and the iterator of the one that is open
FlatMap_new(definitions) == [outer |-> definitions, inner |-> None]
RECURSIVE FlatMap_next(_)
FlatMap_next(self) ==
    IF self.inner.tag = "Some"
    THEN Let(BytesDefinitionIter_next(self.inner.val), LAMBDA r :
            IF r.item.tag = "Some"
            THEN [item |-> r.item, iter |-> [self EXCEPT !.inner = Some(r.iter)]]
            ELSE FlatMap_next([self EXCEPT !.inner = None]))
    ELSE IF self.outer = <<>> THEN [item |-> None, iter |-> self]
    ELSE FlatMap_next([outer |-> Tail(self.outer),
                       inner |-> Some(BytesDefinition_into_iter(Head(self.outer)))])

\* iter::repeat(fill.unwrap_or(0)).take(size).collect()
SpaceBytes(size, fill) == [i \in 1..size |-> IF fill.tag = "Some" THEN fill.val ELSE 0]
\* words.into_iter().flat_map(u32::to_be_bytes).collect()
RECURSIVE WordsBytes(_)
WordsBytes(words) ==
    IF words = <<>> THEN <<>> ELSE to_be_bytes(Head(words)) \o WordsBytes(Tail(words))

\* Symbol::backwards_resolve / Expression::backwards_resolve on the
\* unresolved symbol table; a symbol bound to itself recurses without end
\* (fuel runs out: the stack overflows)
RECURSIVE backwards_resolve(_, _, _)
backwards_resolve(e, symbol_table, fuel) ==
    CASE e.tag = "Number" -> Ok(e.n)
      [] e.tag = "Character" -> Ok(U32(e.c))
      [] e.tag = "String" -> IF e.s = <<>> THEN Panic ELSE Ok(U32(e.s[1]))
      [] e.tag = "Boolean" -> Ok(U32(IF e.b THEN 1 ELSE 0))
      [] e.tag = "Diadic" ->
            Let(backwards_resolve(e.lhs, symbol_table, fuel), LAMBDA lhs :
                IF lhs.tag # "Ok" THEN lhs
                ELSE Let(backwards_resolve(e.rhs, symbol_table, fuel), LAMBDA rhs :
                        IF rhs.tag # "Ok" THEN rhs
                        ELSE Diadic_resolve(lhs.val, e.operator, rhs.val)))
      [] e.tag = "Symbol" ->
            IF e.name \notin DOMAIN symbol_table THEN Err("SymbolNotFound")
            ELSE IF fuel = 0 THEN Panic
            ELSE backwards_resolve(symbol_table[e.name], symbol_table, fuel - 1)

\* an ALIGN that rounds up and leaves an aligned address where it is
Align_round_up(address) == ((address + 3) \div 4) * 4

\* DirectiveKind::Align: self.address += 4 - (self.address % 4)
Align(address) == address + (4 - (address % 4))

\* the position inside run(): between lines, inside the collect() of a
\* DEFB definition, or returned
BetweenLines == [at |-> "lines"]
Collecting(flat_map, bytes) == [at |-> "collect", flat_map |-> flat_map, bytes |-> bytes]
Returned(ret) == [at |-> "returned", ret |-> ret]

\* the body of the loop of run() for one line: the label is queued, then the
\* statement is applied; a Bytes definition opens its collect()
run_line(self, line, source_line) ==
    Let(IF line.label.tag = "Some"
        THEN [self EXCEPT !.label_queue = Append(@, line.label.val)]
        ELSE self, LAMBDA queued :
        IF line.statement.tag = "None" THEN [self |-> queued, position |-> BetweenLines]
        ELSE Let(line.statement.val, LAMBDA statement :
            CASE statement.tag = "Instruction" ->
                    [self |-> insert_addressed_statement(queued, statement, 4, source_line),
                     position |-> BetweenLines]
              [] statement.tag = "PseudoInstruction" ->
                    [self |-> insert_addressed_statement(queued, statement,
                                  IF statement.kind.tag = "AddressRegister" /\ statement.kind.long
                                  THEN 8 ELSE 4, source_line),
                     position |-> BetweenLines]
              [] statement.tag = "Directive" /\ statement.kind.tag = "Definition" ->
                    Let(statement.kind.kind, LAMBDA kind :
                        CASE kind.tag = "Space" ->
                                [self |-> insert_addressed_statement(queued,
                                              Data(SpaceBytes(kind.size, kind.fill)),
                                              kind.size, source_line),
                                 position |-> BetweenLines]
                          [] kind.tag = "Words" ->
                                [self |-> insert_addressed_statement(queued,
                                              Data(WordsBytes(kind.words)),
                                              4 * Len(kind.words), source_line),
                                 position |-> BetweenLines]
                          [] kind.tag = "Bytes" ->
                                [self |-> queued,
                                 position |-> Collecting(FlatMap_new(kind.bytes), <<>>)])
              [] statement.tag = "Directive" /\ statement.kind.tag = "Align" ->
                    [self |-> [queued EXCEPT !.address = Align(@)], position |-> BetweenLines]
              [] statement.tag = "Directive" /\ statement.kind.tag = "Constant" ->
                    [self |-> [queued EXCEPT
                                  !.symbol_table = InsertLabels(@, queued.label_queue,
                                                                statement.kind.value),
                                  !.label_queue = <<>>],
                     position |-> BetweenLines]
              [] statement.tag = "Directive" /\ statement.kind.tag = "Origin" ->
                    Let(backwards_resolve(statement.kind.address, queued.symbol_table,
                                          Cardinality(DOMAIN queued.symbol_table)),
                        LAMBDA n :
                            IF n.tag = "Ok"
                            THEN [self |-> [queued EXCEPT !.address = range(n.val, 0, 30)],
                                  position |-> BetweenLines]
                            ELSE IF n.tag = "Panic"
                            THEN [self |-> queued, position |-> Returned(Panic)]
                            ELSE [self |-> queued,
                                  position |-> Returned(Err("OriginAddressError"))])
              [] statement.tag = "Directive" /\ statement.kind.tag = "EntryPoint" ->
                    [self |-> [queued EXCEPT !.entry_point = queued.address],
                     position |-> BetweenLines]))

\* one turn of the collect() of a Bytes definition: the next byte is pushed,
\* or the bytes collected are inserted as a data statement
collect_next(self, position, source_line) ==
    Let(FlatMap_next(position.flat_map), LAMBDA r :
        IF r.item.tag = "Some"
        THEN [self |-> self,
              position |-> Collecting(r.iter, Append(position.bytes, r.item.val))]
        ELSE [self |-> insert_addressed_statement(self, Data(position.bytes),
                                                  Len(position.bytes), source_line),
              position |-> BetweenLines])

\* the result of run() had the labels still queued at the end of the input
\* been bound to the final address
PreProcessResult_binding_queue(self) ==
    [statements |-> self.statements,
     symbol_table |-> InsertLabels(self.symbol_table, self.label_queue,
                                   AddressNumber(self.address)),
     entry_point |-> self.entry_point, source_map |-> self.source_map]

\* PreProcessResult
PreProcessResult(self) ==
    [statements |-> self.statements, symbol_table |-> self.symbol_table,
     entry_point |-> self.entry_point, source_map |-> self.source_map]

\* ------------------------------------- specification: the pre-processor
\* how many lines run() is given
MaxLines == 4
\* how many bytes the collect() of one definition is followed for
MaxCollect == 4

\* the parsed lines run() is given: labels alone, instructions and
\* pseudo-instructions, definitions, the directives, and a line that failed
\* to parse
Line(label, statement) == Ok([label |-> label, statement |-> statement])
Directive(kind) == [tag |-> "Directive", kind |-> kind]
Definition(kind) == Directive([tag |-> "Definition", kind |-> kind])
AddRegisters ==
    [tag |-> "DataProcessing", condition |-> "AL",
     kind |-> [tag |-> "Calculation", kind |-> "ADD", set_flags |-> "DontSet",
               destination |-> 0, source |-> 1, shifter |-> RegisterOperand(2)]]
Byte(b) == [tag |-> "Byte", byte |-> b]
String(s) == [tag |-> "String", string |-> s]
LineItems ==
    {Line(Some("a"), None),
     Line(Some("c"), Some(Instruction(AddRegisters))),
     Line(None, Some([tag |-> "PseudoInstruction",
                      kind |-> [tag |-> "AddressRegister", condition |-> "AL",
                                long |-> TRUE, destination |-> 0, label |-> "a"]])),
     Line(None, Some([tag |-> "PseudoInstruction",
                      kind |-> [tag |-> "LoadRegisterConstant", condition |-> "AL",
                                destination |-> 0, value |-> Number(1)]])),
     Line(None, Some(Definition([tag |-> "Space", size |-> 3, fill |-> None]))),
     Line(Some("w"), Some(Definition([tag |-> "Words", words |-> <<U32(258)>>]))),
     Line(None, Some(Definition([tag |-> "Bytes", bytes |-> <<Byte(7), String(<<104, 105>>)>>]))),
     Line(None, Some(Definition([tag |-> "Bytes", bytes |-> <<String(<<>>)>>]))),
     Line(Some("d"), Some(Directive([tag |-> "Align"]))),
     Line(None, Some(Directive([tag |-> "Origin", address |-> Number(6)]))),
     Line(None, Some(Directive([tag |-> "Origin",
                                address |-> [tag |-> "Symbol", name |-> "k"]]))),
     Line(None, Some(Directive([tag |-> "EntryPoint"]))),
     Line(Some("k"), Some(Directive([tag |-> "Constant", value |-> Number(5)]))),
     Err("ParseError")}

PreInit ==
    /\ overflow_checks = TRUE
    /\ input = <<>>
    /\ call = NoCall
    /\ EmulatorIdle
    /\ preprocessor = [self |-> PreProcessor_new, position |-> BetweenLines]
    /\ lexer = <<>>

\* run() takes the next line from the parser
PreLine ==
    /\ preprocessor.position.at = "lines"
    /\ Len(input) < MaxLines
    /\ \E item \in LineItems :
        /\ input' = Append(input, item)
        /\ \E done \in {IF item.tag = "Err"
                        THEN [self |-> preprocessor.self,
                              position |-> Returned(Err("ParseError"))]
                        ELSE run_line(preprocessor.self, item.val, Len(input))} :
              preprocessor' = done
        /\ call' = [op |-> "line", depth |-> 0, ret |-> None, item |-> item,
                    before |-> preprocessor.self]
    /\ UNCHANGED <<overflow_checks, registers, cpsr, memory, status, steps, lexer>>

\* the collect() of a Bytes definition takes its next turn; the vector it
\* fills is followed up to MaxCollect bytes
PreCollect ==
    /\ preprocessor.position.at = "collect"
    /\ Len(preprocessor.position.bytes) < MaxCollect
    /\ \E done \in {collect_next(preprocessor.self, preprocessor.position,
                                 Len(input) - 1)} :
          preprocessor' = done
    /\ call' = [op |-> "collect", depth |-> 0, ret |-> None, item |-> input[Len(input)],
                before |-> preprocessor.self]
    /\ UNCHANGED <<overflow_checks, input, registers, cpsr, memory, status, steps, lexer>>

\* the parser has no more lines: run() returns the PreProcessResult
PreReturn ==
    /\ preprocessor.position.at = "lines"
    /\ preprocessor' = [preprocessor EXCEPT
                           !.position = Returned(Ok(PreProcessResult(preprocessor.self)))]
    /\ call' = [op |-> "return", depth |-> 0, ret |-> None, item |-> None,
                before |-> preprocessor.self]
    /\ UNCHANGED <<overflow_checks, input, registers, cpsr, memory, status, steps, lexer>>

PreNext == PreLine \/ PreCollect \/ PreReturn

SpecPre == PreInit /\ [][PreNext]_vars

\* ------------------------------------------- claims on the pre-processor
\* line i parsed and carries an addressed statement: an instruction, a
\* pseudo-instruction or a definition
AddressedLine(i) ==
    /\ input[i].tag = "Ok"
    /\ input[i].val.statement.tag = "Some"
    /\ \/ input[i].val.statement.val.tag \in {"Instruction", "PseudoInstruction"}
       \/ /\ input[i].val.statement.val.tag = "Directive"
          /\ input[i].val.statement.val.kind.tag = "Definition"
\* line i is a directive of the kind given
DirectiveLine(i, kind) ==
    /\ input[i].tag = "Ok"
    /\ input[i].val.statement.tag = "Some"
    /\ input[i].val.statement.val.tag = "Directive"
    /\ input[i].val.statement.val.kind.tag = kind
\* line i carries the label given
LabelledLine(i, label) ==
    /\ input[i].tag = "Ok"
    /\ input[i].val.label = Some(label)
\* the place of line i's statement among the statements emitted
RECURSIVE EmissionOf(_)
EmissionOf(i) ==
    IF i = 0 THEN 0 ELSE EmissionOf(i - 1) + (IF AddressedLine(i) THEN 1 ELSE 0)
\* what run() has produced: the result it returned, or the one it would
\* return from where it stands
PreOutput ==
    IF preprocessor.position.at = "returned" /\ preprocessor.position.ret.tag = "Ok"
    THEN preprocessor.position.ret.val
    ELSE PreProcessResult(preprocessor.self)
\* line j is the first addressed line at or after line i, and its statement
\* has been emitted
NextAddressed(i, j) ==
    /\ j >= i
    /\ AddressedLine(j)
    /\ \A k \in i..(j - 1) : ~AddressedLine(k)
    /\ EmissionOf(j) <= Len(PreOutput.statements)
\* a label that names an address: it is defined once, and no EQU line takes
\* it from the queue before the statement at line j does
AddressLabel(i, j, label) ==
    /\ \A k \in 1..Len(input) : LabelledLine(k, label) => k = i
    /\ \A k \in i..j : ~DirectiveLine(k, "Constant")

RECURSIVE DefinedBytes(_)
DefinedBytes(definitions) ==
    IF definitions = <<>> THEN <<>>
    ELSE (IF Head(definitions).tag = "Byte" THEN <<Head(definitions).byte>>
          ELSE Head(definitions).string) \o DefinedBytes(Tail(definitions))
IsPrefix(s, t) == Len(s) <= Len(t) /\ \A i \in 1..Len(s) : s[i] = t[i]
\* run() is inside, or has just left, the collect() of a DEFB line
InDefineBytes ==
    /\ call.op \in {"line", "collect"}
    /\ call.item.tag = "Ok"
    /\ call.item.val.statement.tag = "Some"
    /\ call.item.val.statement.val.tag = "Directive"
    /\ call.item.val.statement.val.kind.tag = "Definition"
    /\ call.item.val.statement.val.kind.kind.tag = "Bytes"

\* C14: pre-processing a DEFB directive terminates and emits one addressed
\* data statement whose bytes are, in order, each decimal byte and each byte
\* of each string operand; the address cursor advances by that byte count.
\* The bytes collected are always a prefix of those bytes, and the statement
\* emitted holds exactly them.
C14_DefineBytesEmitsItsBytes ==
    InDefineBytes =>
        LET bytes == DefinedBytes(call.item.val.statement.val.kind.kind.bytes)
            self == preprocessor.self
        IN IF preprocessor.position.at = "collect"
           THEN IsPrefix(preprocessor.position.bytes, bytes)
           ELSE /\ Len(self.statements) = Len(call.before.statements) + 1
                /\ self.statements[Len(self.statements)]
                    = [address |-> call.before.address, statement |-> Data(bytes)]
                /\ self.address = call.before.address + Len(bytes)

\* run() has just applied an ALIGN line
AlignedLine ==
    /\ call.op = "line"
    /\ call.item.tag = "Ok"
    /\ call.item.val.statement = Some(Directive([tag |-> "Align"]))

\* C15: after an ALIGN directive the address cursor is a multiple of 4; it is
\* 4 more than before when it was a multiple of 4 already, and otherwise the
\* smallest multiple of 4 above its previous value; ALIGN emits no statement
\* and leaves the label queue (but for the label of its own line), the symbol
\* table and the entry point unchanged
C15_AlignAdvancesToMultipleOf4 ==
    AlignedLine =>
        LET self == preprocessor.self
            old == call.before
        IN /\ self.address % 4 = 0
           /\ self.address > old.address
           /\ old.address % 4 = 0 => self.address = old.address + 4
           /\ old.address % 4 # 0 => self.address - old.address < 4
           /\ self.statements = old.statements
           /\ self.label_queue = (IF call.item.val.label.tag = "Some"
                                  THEN Append(old.label_queue, call.item.val.label.val)
                                  ELSE old.label_queue)
           /\ self.symbol_table = old.symbol_table
           /\ self.entry_point = old.entry_point
           /\ preprocessor.position = BetweenLines

\* C15 happens: ALIGN on an address that is a multiple of 4 already, 8 after
\* an ADRL, with the label d of its line waiting in the queue
C15_Witness_AlignedAdvancesBy4 ==
    /\ AlignedLine
    /\ call.before.address = 8
    /\ preprocessor.self.address = 12
    /\ preprocessor.self.label_queue = <<"d">>
    /\ Len(preprocessor.self.statements) = 1


\* -------------------------------------------------------------- src/lexer
\* A text (&str) is modelled as the sequence of its characters, each a Unicode
\* scalar value; its bytes are the UTF-8 encoding of the characters. The
\* characters of the model are below U+0800 (one or two bytes each).
len_utf8(c) == IF c < 128 THEN 1 ELSE IF c < 2048 THEN 2 ELSE IF c < 65536 THEN 3 ELSE 4

encode_utf8(c) == IF c < 128 THEN <<c>> ELSE <<192 + (c \div 64), 128 + (c % 64)>>

RECURSIVE as_bytes(_)
as_bytes(text) ==
    IF text = <<>> THEN <<>> ELSE encode_utf8(Head(text)) \o as_bytes(Tail(text))

\* str::is_char_boundary: the start, the end, or a byte that is no continuation byte
is_char_boundary(bytes, index) ==
    \/ index = 0
    \/ index = Len(bytes)
    \/ index < Len(bytes) /\ bytes[index + 1] \notin 128..191

\* &input[range]: the bytes of the range, a panic when an end of the range is
\* out of bounds or inside a character
Slice(bytes, token_range) ==
    IF /\ token_range.start <= token_range.end
       /\ is_char_boundary(bytes, token_range.start)
       /\ is_char_boundary(bytes, token_range.end)
    THEN Ok(SubSeq(bytes, token_range.start + 1, token_range.end))
    ELSE Panic

\* the predicates handed to eat_while
is_whitespace(c) == c \in {9, 10, 11, 12, 13, 32, 133, 160}
is_numeric(c) == c \in (48..57) \cup {178, 179, 185, 188, 189, 190}
is_ascii_hexdigit(c) == c \in (48..57) \cup (65..70) \cup (97..102)
valid_identifier_char(c) == c \in (97..122) \cup (65..90) \cup (48..57) \cup {95}

Predicate(predicate, c) ==
    CASE predicate = "not_newline" -> c # 10
      [] predicate = "is_whitespace" -> is_whitespace(c)
      [] predicate = "is_numeric" -> is_numeric(c)
      [] predicate = "is_ascii_hexdigit" -> is_ascii_hexdigit(c)
      [] predicate = "valid_identifier_char" -> valid_identifier_char(c)

\* Cursor::new: chars is what the Chars iterator has yet to yield
Cursor_new(text) == [chars |-> text, current_token |-> [start |-> 0, end |-> 0]]

\* Cursor::finish_token
finish_token(self) ==
    [self |-> [self EXCEPT !.current_token = [start |-> self.current_token.end,
                                               end |-> self.current_token.end]],
     range |-> self.current_token]

\* Cursor::peek
peek(self) == IF self.chars = <<>> THEN None ELSE Some(Head(self.chars))

\* Cursor::next: the end of the current token grows by one, whatever chars yields
Cursor_next(self) ==
    [self |-> [chars |-> IF self.chars = <<>> THEN <<>> ELSE Tail(self.chars),
               current_token |-> [self.current_token EXCEPT !.end = @ + 1]],
     item |-> peek(self)]

\* Cursor::eat_while
RECURSIVE eat_while(_, _)
eat_while(self, predicate) ==
    IF self.chars # <<>> /\ Predicate(predicate, Head(self.chars))
    THEN eat_while(Cursor_next(self).self, predicate)
    ELSE self

\* the outcome of a Tokens method: the cursor after it and the kind it returns,
\* or a panic
Kind(cursor, kind) == [tag |-> "Ok", cursor |-> cursor, kind |-> kind]

\* Tokens::comment, whitespace, identifier, hexadecimal
comment(cursor) == Kind(eat_while(cursor, "not_newline"), "Comment")
whitespace(cursor) == Kind(eat_while(cursor, "is_whitespace"), "Whitespace")
identifier(cursor) == Kind(eat_while(cursor, "valid_identifier_char"), "Identifier")
hexadecimal(cursor) == Kind(eat_while(cursor, "is_ascii_hexdigit"), "Hexadecimal")

\* Tokens::number
number(cursor, first_digit) ==
    IF first_digit = 48 /\ peek(cursor) = Some(120)
    THEN hexadecimal(Cursor_next(cursor).self)
    ELSE Let(eat_while(cursor, "is_numeric"), LAMBDA eaten :
            IF peek(eaten) = Some(95)
            THEN Kind(eat_while(Cursor_next(eaten).self, "is_numeric"), "NBaseNumber")
            ELSE Kind(eaten, "Decimal"))

\* the loop of Tokens::character (quote = ') and Tokens::string (quote = ")
RECURSIVE literal(_, _, _)
literal(cursor, quote, kind) ==
    Let(Cursor_next(cursor), LAMBDA next :
        CASE next.item = None -> Panic
          [] next.item = Some(92) -> literal(Cursor_next(next.self).self, quote, kind)
          [] next.item = Some(quote) -> Kind(next.self, kind)
          [] OTHER -> literal(next.self, quote, kind))

character(cursor) == literal(cursor, 39, "Character")
string(cursor) == literal(cursor, 34, "String")

\* the one-symbol tokens
OneSymbolTokens ==
    [c \in {35, 123, 125, 91, 93, 33, 61, 43, 45, 44} |->
        CASE c = 35 -> "LiteralSign"
          [] c = 123 -> "OpenBrace"
          [] c = 125 -> "CloseBrace"
          [] c = 91 -> "OpenBracket"
          [] c = 93 -> "CloseBracket"
          [] c = 33 -> "ExclamationMark"
          [] c = 61 -> "EqualSign"
          [] c = 43 -> "Plus"
          [] c = 45 -> "HyphenMinus"
          [] c = 44 -> "Comma"]

\* Tokens::new
Tokens_new(text) == [input |-> text, cursor |-> Cursor_new(text)]

\* the match on the first character in Tokens::next
TokenKindOf(cursor, char) ==
    CASE char = 59 -> comment(cursor)
      [] char = 10 -> Kind(cursor, "NewLine")
      [] char # 10 /\ is_whitespace(char) -> whitespace(cursor)
      [] char \in 48..57 -> number(cursor, char)
      [] char = 38 -> hexadecimal(cursor)
      [] char = 39 -> character(cursor)
      [] char = 34 -> string(cursor)
      [] char \in (65..90) \cup (97..122) \cup {95} -> identifier(cursor)
      [] char \in DOMAIN OneSymbolTokens -> Kind(cursor, OneSymbolTokens[char])
      [] OTHER -> Kind(cursor, "Unknown")

\* Tokens::next: None at the end of the text, a token, or a panic
Tokens_next(self) ==
    Let(Cursor_next(self.cursor), LAMBDA first :
        IF first.item = None
        THEN [self |-> [self EXCEPT !.cursor = first.self], item |-> None]
        ELSE Let(TokenKindOf(first.self, first.item.val), LAMBDA kind :
                IF kind.tag = "Panic" THEN [self |-> self, item |-> Panic]
                ELSE Let(finish_token(kind.cursor), LAMBDA finished :
                        Let(Slice(as_bytes(self.input), finished.range), LAMBDA span :
                            IF span.tag = "Panic" THEN [self |-> self, item |-> Panic]
                            ELSE [self |-> [self EXCEPT !.cursor = finished.self],
                                  item |-> Some([kind |-> kind.kind, span |-> span.val,
                                                 range |-> finished.range])]))))


\* ------------------------------------------------ specification: the lexer
\* Every text of at most MaxChars characters over LexChars is tokenised, one
\* call of Tokens::next per step, until it returns None or panics.
MaxChars == 3

\* ; \n space 0 x _ ' " \ a + and e-acute (two bytes in UTF-8)
LexChars == {59, 10, 32, 48, 120, 95, 39, 34, 92, 97, 43, 233}

LexTexts == UNION {[1..k -> LexChars] : k \in 0..MaxChars}

LexInit ==
    /\ overflow_checks = TRUE
    /\ input \in LexTexts
    /\ call = NoCall
    /\ EmulatorIdle
    /\ preprocessor = <<>>
    /\ lexer = [tokens |-> Tokens_new(input), emitted |-> <<>>, status |-> "lexing"]

\* one turn of `for token in Tokens::new(input)`
TokensNext ==
    /\ lexer.status = "lexing"
    /\ \E done \in {Tokens_next(lexer.tokens)} :
        /\ lexer' = [tokens |-> done.self,
                     emitted |-> IF done.item.tag = "Some"
                                 THEN Append(lexer.emitted, done.item.val)
                                 ELSE lexer.emitted,
                     status |-> CASE done.item.tag = "Some" -> "lexing"
                                  [] done.item.tag = "None" -> "done"
                                  [] done.item.tag = "Panic" -> "panicked"]
        /\ call' = [op |-> "Tokens_next", depth |-> 0, ret |-> done.item]
    /\ UNCHANGED <<overflow_checks, input, registers, cpsr, memory, status, steps,
                   preprocessor>>

LexNext == TokensNext

SpecLex == LexInit /\ [][LexNext]_vars

\* C18: for every input text the ranges of the tokens the lexer produces are
\* byte ranges that partition the input: the lexer does not fail, the first
\* token starts at 0, each token starts where the one before it ended, each
\* span is the bytes of the input in the token's range, and when the lexer is
\* done the last token ends at the byte length of the input.
C18_TokenRangesPartitionInput ==
    lexer # <<>> =>
        LET emitted == lexer.emitted
            bytes == as_bytes(input)
        IN /\ lexer.status # "panicked"
           /\ \A i \in 1..Len(emitted) :
                /\ emitted[i].range.start = IF i = 1 THEN 0 ELSE emitted[i - 1].range.end
                /\ emitted[i].range.end <= Len(bytes)
                /\ emitted[i].span
                    = SubSeq(bytes, emitted[i].range.start + 1, emitted[i].range.end)
           /\ lexer.status = "done" =>
                IF emitted = <<>> THEN bytes = <<>>
                ELSE emitted[Len(emitted)].range.end = Len(bytes)


\* ------------------------------------------------------------- src/parser
\* Lexer::new: the tokens behind a Peekable, nothing peeked yet
Lexer_new(text) == [input |-> text, tokens |-> Tokens_new(text), peeked |-> None]

\* Lexer::next (Peekable::next): the peeked item if there is one, else the next token
Lexer_next(self) ==
    IF self.peeked.tag = "Some"
    THEN [self |-> [self EXCEPT !.peeked = None], item |-> self.peeked.val]
    ELSE Let(Tokens_next(self.tokens), LAMBDA next :
            [self |-> [self EXCEPT !.tokens = next.self], item |-> next.item])

\* Lexer::peek (Peekable::peek): the next item is taken from the tokens and kept
Lexer_peek(self) ==
    IF self.peeked.tag = "Some"
    THEN [self |-> self, item |-> self.peeked.val]
    ELSE Let(Tokens_next(self.tokens), LAMBDA next :
            [self |-> [self EXCEPT !.tokens = next.self, !.peeked = Some(next.item)],
             item |-> next.item])

IsWhitespace(item) == item.tag = "Some" /\ item.val.kind = "Whitespace"

\* Lexer::next_ignore_whitespace
RECURSIVE next_ignore_whitespace(_)
next_ignore_whitespace(self) ==
    Let(Lexer_next(self), LAMBDA next :
        IF IsWhitespace(next.item) THEN next_ignore_whitespace(next.self) ELSE next)

\* Lexer::peek_ignore_whitespace
RECURSIVE peek_ignore_whitespace(_)
peek_ignore_whitespace(self) ==
    Let(Lexer_peek(self), LAMBDA peeked :
        IF IsWhitespace(peeked.item)
        THEN peek_ignore_whitespace(Lexer_next(peeked.self).self)
        ELSE peeked)

\* the number a string of ASCII decimal digits stands for
RECURSIVE DecimalValue(_)
DecimalValue(span) ==
    IF span = <<>> THEN 0
    ELSE 10 * DecimalValue(SubSeq(span, 1, Len(span) - 1)) + (span[Len(span)] - 48)

\* u32::from_str_radix(span, 10): an error for the empty string and for a
\* character that is no ASCII digit. Spans of more than nine digits (where the
\* value can pass u32::MAX) are not modelled.
from_str_radix(span) ==
    CASE span = <<>> \/ \E i \in 1..Len(span) : span[i] \notin 48..57 -> Err("ParseIntError")
      [] span # <<>> /\ Len(span) <= 9 /\ \A i \in 1..Len(span) : span[i] \in 48..57 ->
            Ok(U32(DecimalValue(span)))

\* the value of a string of hexadecimal digits
HexDigitValue(char) ==
    CASE char \in 48..57 -> char - 48
      [] char \in 65..70 -> char - 55
      [] char \in 97..102 -> char - 87
RECURSIVE HexValue(_)
HexValue(span) ==
    IF span = <<>> THEN 0
    ELSE 16 * HexValue(SubSeq(span, 1, Len(span) - 1)) + HexDigitValue(span[Len(span)])

\* u32::from_str_radix(span, 16): an error for the empty string and for a
\* character that is no hexadecimal digit. Spans of more than seven digits are
\* not modelled.
from_str_radix_16(span) ==
    CASE span = <<>> \/ \E i \in 1..Len(span) : ~is_ascii_hexdigit(span[i]) ->
            Err("ParseIntError")
      [] span # <<>> /\ Len(span) <= 7 /\ \A i \in 1..Len(span) : is_ascii_hexdigit(span[i]) ->
            Ok(U32(HexValue(span)))

LineError(token, message) == Err([token |-> token, message |-> message])

\* the first match of Parser::expression, for the tokens that texts without
\* _ ' " { can hold: a decimal or hexadecimal number, an identifier, or no
\* operand
Operand(token) ==
    CASE token.tag = "Panic" -> Panic
      [] token.tag = "Some" /\ token.val.kind = "Decimal" ->
            Let(from_str_radix(token.val.span), LAMBDA n :
                IF n.tag = "Ok" THEN Ok([tag |-> "Number", base |-> 10, n |-> n.val])
                ELSE Panic)
      [] token.tag = "Some" /\ token.val.kind = "Hexadecimal" ->
            \* &span[2..] panics when the span is shorter than two bytes
            IF Len(token.val.span) < 2 THEN Panic
            ELSE Let(from_str_radix_16(SubSeq(token.val.span, 3, Len(token.val.span))),
                     LAMBDA n :
                     IF n.tag = "Ok" THEN Ok([tag |-> "Number", base |-> 16, n |-> n.val])
                     ELSE Panic)
      [] token.tag = "Some" /\ token.val.kind = "Identifier" ->
            Ok([tag |-> "Symbol", name |-> token.val.span])
      [] \/ token.tag = "None"
         \/ token.tag = "Some" /\ token.val.kind \in
                {"Plus", "HyphenMinus", "NewLine", "Comment", "Unknown", "Comma",
                 "LiteralSign", "CloseBrace", "OpenBracket", "CloseBracket",
                 "ExclamationMark", "EqualSign"} ->
            LineError(token, "Expected Number, Character, String, or Boolean")

DiadicOperator(kind) == IF kind = "Plus" THEN "Plus" ELSE "Minus"

Diadic(lhs, operator, rhs) ==
    [tag |-> "Diadic", lhs |-> lhs, operator |-> operator, rhs |-> rhs]

\* Parser::expression: an operand, then, when a + or - follows, the operator
\* and self.expression() for everything after it
RECURSIVE expression(_)
expression(self) ==
    Let(next_ignore_whitespace(self.lexer), LAMBDA first :
        Let2(Operand(first.item), peek_ignore_whitespace(first.self), LAMBDA operand, peeked :
            CASE operand.tag = "Panic" \/ peeked.item.tag = "Panic" ->
                    [self |-> [lexer |-> peeked.self], ret |-> Panic]
              [] operand.tag # "Panic" /\ peeked.item.tag = "Some"
                    /\ peeked.item.val.kind \in {"Plus", "HyphenMinus"} ->
                    Let(Lexer_next(peeked.self).self, LAMBDA eaten :
                        IF operand.tag # "Ok"
                        THEN [self |-> [lexer |-> eaten], ret |-> operand]
                        ELSE Let(expression([lexer |-> eaten]), LAMBDA rest :
                                [self |-> rest.self,
                                 ret |-> IF rest.ret.tag # "Ok" THEN rest.ret
                                         ELSE Ok(Diadic(operand.val,
                                                        DiadicOperator(peeked.item.val.kind),
                                                        rest.ret.val))]))
              [] OTHER -> [self |-> [lexer |-> peeked.self], ret |-> operand]))

\* -------------------------------------- specification: parsing expressions
\* Every text of at most MaxText characters over ExpressionChars is parsed by
\* Parser::expression, and the expression it returns is resolved.
MaxText == 5

\* 7 2 - + and space
ExpressionChars == {55, 50, 45, 43, 32}

ExpressionTexts == UNION {[1..k -> ExpressionChars] : k \in 0..MaxText}

ParseInit ==
    /\ overflow_checks \in BOOLEAN
    /\ input \in ExpressionTexts
    /\ call = NoCall
    /\ EmulatorIdle
    /\ preprocessor = <<>>
    /\ lexer = Lexer_new(input)

ParseExpression ==
    /\ call = NoCall
    /\ \E done \in {expression([lexer |-> lexer])} :
        /\ lexer' = done.self.lexer
        /\ call' = [op |-> "expression", depth |-> 0, ret |-> done.ret]
    /\ UNCHANGED <<overflow_checks, input, registers, cpsr, memory, status, steps,
                   preprocessor>>

ResolveExpression ==
    /\ call.op = "expression"
    /\ call.ret.tag = "Ok"
    /\ call' = [op |-> "resolve", depth |-> 1, expression |-> call.ret.val,
                ret |-> Expression_resolve(call.ret.val, <<>>)]
    /\ UNCHANGED <<overflow_checks, input, registers, cpsr, memory, status, steps,
                   preprocessor, lexer>>

ParseNext == ParseExpression \/ ResolveExpression

SpecParse == ParseInit /\ [][ParseNext]_vars

\* the operands and operators of an expression in the order of the text
RECURSIVE Flatten(_)
Flatten(e) ==
    IF e.tag = "Diadic" THEN Flatten(e.lhs) \o <<e.operator>> \o Flatten(e.rhs)
    ELSE <<e>>

\* operand op operand op ... evaluated from left to right: ((a op b) op c) ...
RECURSIVE LeftToRight(_)
LeftToRight(chain) ==
    IF Len(chain) = 1 THEN Expression_resolve(chain[1], <<>>)
    ELSE Let(LeftToRight(SubSeq(chain, 1, Len(chain) - 2)), LAMBDA lhs :
            IF lhs.tag # "Ok" THEN lhs
            ELSE Let(Expression_resolve(chain[Len(chain)], <<>>), LAMBDA rhs :
                    IF rhs.tag # "Ok" THEN rhs
                    ELSE Diadic_resolve(lhs.val, chain[Len(chain) - 1], rhs.val)))

\* C17: a chain of + and - is parsed left-associatively: the expression that
\* Parser::expression returns never has a Diadic as its right operand
\* (`a - b - c` is Diadic(Diadic(a, -, b), -, c)), and resolving it gives the
\* value of the chain taken from left to right, (a - b) - c.
C17_ChainIsLeftAssociative ==
    /\ (call.op = "expression" /\ call.ret.tag = "Ok" /\ call.ret.val.tag = "Diadic") =>
            call.ret.val.rhs.tag # "Diadic"
    /\ call.op = "resolve" => call.ret = LeftToRight(Flatten(call.expression))


\* C21: the encoding of SuperVisorCall{condition, imm24} has the condition in
\* bits 31..28, 1111 in bits 27..24 and imm24 in bits 23..0, so bits 27..25
\* select the supervisor-call form (0b111) of InstructionKind::decode.
C21_SuperVisorCallLayout ==
    (call.op = "encode" /\ input.ins.tag = "SuperVisorCall") =>
        /\ range(call.ret.val, 28, 31) = ConditionCode(input.ins.condition)
        /\ range(call.ret.val, 24, 27) = 15
        /\ range(call.ret.val, 0, 23) = input.ins.immediate
        /\ range(call.ret.val, 25, 27) = 7


\* --------------------------------------- specification: Emulator::execute
\* execute is applied to a data-processing instruction on an emulator whose
\* registers and flags are given. (step() decodes only ADD and SUB, so a
\* Move reaches execute from no machine word; it is handed over here.)
ExecuteShifters ==
    {[tag |-> "Immediate", imm |-> [rotate |-> r, value |-> v]] :
        r \in {0, 1, 4}, v \in {0, 2, 255}}
    \cup {[tag |-> "RegisterShift", kind |-> k, amount |-> 3, base |-> 2] :
            k \in {ShiftNames[n] : n \in 1..4}}

ExecuteInstructions ==
    {[tag |-> "DataProcessing", condition |-> c,
      kind |-> [tag |-> "Move", kind |-> k, set_flags |-> f, destination |-> 0,
                shifter |-> sh]] :
        c \in {"AL", "CC"}, k \in {"Move", "MoveNot"}, f \in {"Set", "DontSet"},
        sh \in ExecuteShifters}
    \cup {[tag |-> "DataProcessing", condition |-> "AL",
           kind |-> [tag |-> "Calculation", kind |-> "ADD", set_flags |-> "Set",
                     destination |-> 0, source |-> 1, shifter |-> sh]] :
            sh \in ExecuteShifters}

\* R2 is the register shifted, R3 holds the amount (its low 8 bits count)
ExecuteStates ==
    {[registers |-> Loaded(U32(7), b, U32(k)),
      cpsr |-> [n |-> FALSE, z |-> FALSE, c |-> c, v |-> v]] :
        b \in {U32(0), U32(1), MinI32, OrW(MinI32, U32(1))},
        k \in {0, 1, 32, 33, 255, 256}, c \in BOOLEAN, v \in BOOLEAN}

ExecuteInit ==
    /\ overflow_checks \in BOOLEAN
    /\ \E s \in ExecuteStates : registers = s.registers /\ cpsr = s.cpsr
    /\ memory = <<>>
    /\ status = "new"
    /\ steps = 0
    /\ input \in ExecuteInstructions
    /\ call = NoCall
    /\ FrontEndIdle

\* self.execute(instruction)
Execute ==
    /\ call = NoCall
    /\ \E done \in {execute(registers, cpsr, input)} :
          /\ registers' = done.registers
          /\ cpsr' = done.cpsr
          /\ status' = IF done.panicked THEN "panic" ELSE "ok"
          /\ call' = [op |-> "execute", depth |-> 0,
                      ret |-> IF done.panicked THEN Panic ELSE Ok("executed"),
                      before |-> [registers |-> registers, cpsr |-> cpsr],
                      shifter |-> done.shifter]
    /\ UNCHANGED <<overflow_checks, input, memory, steps, preprocessor, lexer>>

ExecuteNext == Execute

SpecExecute == ExecuteInit /\ [][ExecuteNext]_vars

\* execute has run on an instruction whose condition passed
ExecutedPassed ==
    /\ call.op = "execute"
    /\ condition_passed(call.before.cpsr, input.condition)

\* C22: for an Immediate shifter operand the barrel shifter returns the
\* rotated immediate as value, and as carry-out the current C flag when the
\* rotate field is 0 (whatever the 8-bit value), bit 31 of the value otherwise.
C22_ImmediateOperandCarry ==
    (ExecutedPassed /\ input.kind.shifter.tag = "Immediate") =>
        LET imm == input.kind.shifter.imm
            value == rotate_right(U32(imm.value), 2 * imm.rotate)
        IN call.shifter =
            Shifted(value, IF imm.rotate = 0 THEN call.before.cpsr.c ELSE value[31] = 1)

\* C23: for a RegisterShift operand with amount = the low 8 bits of R[Rs] and
\* b = R[Rm]: amount 0 returns (b, C) for every shift kind; LSL by 32 returns
\* (0, bit 0 of b) and by more (0, false); LSR by 32 returns (0, bit 31 of b)
\* and by more (0, false); ASR by 32 or more returns (0xFFFFFFFF if b is
\* negative else 0, bit 31 of b).
C23_RegisterShiftLargeAmounts ==
    (ExecutedPassed /\ input.kind.shifter.tag = "RegisterShift") =>
        LET shift == input.kind.shifter
            b == call.before.registers[shift.base]
            amount == range(call.before.registers[shift.amount], 0, 7)
        IN CASE amount = 0 -> call.shifter = Shifted(b, call.before.cpsr.c)
             [] amount = 32 /\ shift.kind = "LogicalShiftLeft" ->
                    call.shifter = Shifted(U32(0), b[0] = 1)
             [] amount = 32 /\ shift.kind = "LogicalShiftRight" ->
                    call.shifter = Shifted(U32(0), b[31] = 1)
             [] amount > 32 /\ shift.kind \in {"LogicalShiftLeft", "LogicalShiftRight"} ->
                    call.shifter = Shifted(U32(0), FALSE)
             [] amount >= 32 /\ shift.kind = "ArithmeticShiftRight" ->
                    call.shifter
                        = Shifted(IF b[31] = 1 THEN NotW(U32(0)) ELSE U32(0), b[31] = 1)
             [] OTHER -> TRUE

Evaluated(ret, resolved_table) == [ret |-> ret, resolved_table |-> resolved_table]

RECURSIVE resolve_and_insert(_, _, _, _)
resolve_and_insert(e, unresolved_table, resolved_table, fuel) ==
    CASE e.tag = "Number" -> Evaluated(Ok(e.n), resolved_table)
      [] e.tag = "Character" -> Evaluated(Ok(U32(e.c)), resolved_table)
      [] e.tag = "String" ->
            Evaluated(IF e.s = <<>> THEN Panic ELSE Ok(U32(e.s[1])), resolved_table)
      [] e.tag = "Boolean" -> Evaluated(Ok(U32(IF e.b THEN 1 ELSE 0)), resolved_table)
      [] e.tag = "Symbol" ->
            IF e.name \notin DOMAIN unresolved_table
            THEN Evaluated(Err("SymbolNotFound"), resolved_table)
            ELSE IF fuel = 0 THEN Evaluated(Panic, resolved_table)
            ELSE Let(resolve_and_insert(unresolved_table[e.name], unresolved_table,
                                        resolved_table, fuel - 1),
                     LAMBDA value :
                    IF value.ret.tag # "Ok" THEN value
                    ELSE Evaluated(value.ret,
                                   Insert(value.resolved_table, e.name, value.ret.val)))
      [] e.tag = "Diadic" ->
            Let(resolve_and_insert(e.lhs, unresolved_table, resolved_table, fuel),
                LAMBDA lhs :
                IF lhs.ret.tag # "Ok" THEN lhs
                ELSE Let(resolve_and_insert(e.rhs, unresolved_table, lhs.resolved_table,
                                            fuel),
                         LAMBDA rhs :
                        IF rhs.ret.tag # "Ok" THEN rhs
                        ELSE Evaluated(Diadic_resolve(lhs.ret.val, e.operator, rhs.ret.val),
                                       rhs.resolved_table)))

\* --------------------------------- specification: evaluating expressions
\* One diadic expression is evaluated by one of the three evaluators, against
\* the symbol table `k EQU 5` (unresolved for resolve_and_insert and
\* backwards_resolve, flattened for resolve).
Symbol(name) == [tag |-> "Symbol", name |-> name]
EvaluateOperands ==
    {[tag |-> "Number", base |-> 10, n |-> w] :
        w \in {U32(0), U32(1), MinI32, NotW(U32(0))}}
    \cup {Symbol("k"), Symbol("m")}
EvaluateExpressions ==
    {Diadic(a, op, b) : a \in EvaluateOperands, op \in {"Plus", "Minus"},
                        b \in EvaluateOperands}
    \cup {Diadic(Diadic(a, op, b), op2, [tag |-> "Number", base |-> 10, n |-> U32(1)]) :
            a \in EvaluateOperands, op \in {"Plus", "Minus"}, b \in EvaluateOperands,
            op2 \in {"Plus", "Minus"}}
UnresolvedTable == [name \in {"k"} |-> [tag |-> "Number", base |-> 10, n |-> U32(5)]]
ResolvedTable == [name \in {"k"} |-> U32(5)]
MaxSymbolDepth == 2

EvaluateInit ==
    /\ overflow_checks \in BOOLEAN
    /\ input \in EvaluateExpressions
    /\ call = NoCall
    /\ EmulatorIdle
    /\ FrontEndIdle

\* expression.resolve(&symbol_table)
EvaluateResolve ==
    /\ call = NoCall
    /\ call' = [op |-> "resolve", depth |-> 0,
                ret |-> Expression_resolve(input, ResolvedTable)]
    /\ UNCHANGED <<overflow_checks, input, registers, cpsr, memory, status, steps,
                   preprocessor, lexer>>

\* expression.resolve_and_insert(&unresolved_table, &mut resolved_table)
EvaluateResolveAndInsert ==
    /\ call = NoCall
    /\ \E done \in {resolve_and_insert(input, UnresolvedTable, <<>>, MaxSymbolDepth)} :
        call' = [op |-> "resolve_and_insert", depth |-> 0, ret |-> done.ret,
                 resolved_table |-> done.resolved_table]
    /\ UNCHANGED <<overflow_checks, input, registers, cpsr, memory, status, steps,
                   preprocessor, lexer>>

\* expression.backwards_resolve(&symbol_table)
EvaluateBackwardsResolve ==
    /\ call = NoCall
    /\ call' = [op |-> "backwards_resolve", depth |-> 0,
                ret |-> backwards_resolve(input, UnresolvedTable, MaxSymbolDepth)]
    /\ UNCHANGED <<overflow_checks, input, registers, cpsr, memory, status, steps,
                   preprocessor, lexer>>

EvaluateNext == EvaluateResolve \/ EvaluateResolveAndInsert \/ EvaluateBackwardsResolve

SpecEvaluate == EvaluateInit /\ [][EvaluateNext]_vars

\* the value of an expression over ResolvedTable in wrapping 32-bit arithmetic
RECURSIVE WrappingValue(_)
WrappingValue(e) ==
    CASE e.tag = "Number" -> Ok(e.n)
      [] e.tag = "Symbol" -> Symbol_resolve(e.name, ResolvedTable)
      [] e.tag = "Diadic" ->
            LET lhs == WrappingValue(e.lhs)
                rhs == WrappingValue(e.rhs)
            IN IF lhs.tag # "Ok" THEN lhs
               ELSE IF rhs.tag # "Ok" THEN rhs
               ELSE IF e.operator = "Plus" THEN Ok(carrying_add(lhs.val, rhs.val, 0).sum)
               ELSE Ok(borrowing_sub(lhs.val, rhs.val, 0).diff)

\* C25: the three evaluators (resolve, resolve_and_insert, backwards_resolve)
\* evaluate a diadic expression in wrapping 32-bit arithmetic: lhs + rhs is
\* taken mod 2^32, lhs - rhs with lhs < rhs wraps to 2^32 + lhs - rhs, and
\* no evaluation fails on overflow.
C25_DiadicArithmeticWraps ==
    call.op \in {"resolve", "resolve_and_insert", "backwards_resolve"} =>
        call.ret = WrappingValue(input)


\* ---------------------------------------------------- src/parser: lines
\* MNEMONICS.get(&UniCase::new(span)) for the identifiers the source texts of
\* the model hold: `B` is the branch mnemonic, `q` and `z` are none
Mnemonic_get(span) ==
    CASE span \in {<<66>>, <<98>>} -> Some([tag |-> "B", condition |-> "AL", l |-> FALSE])
      [] span \in {<<113>>, <<122>>} -> None

\* Parser::mnemonic
mnemonic(token) ==
    Let(Mnemonic_get(token.span), LAMBDA found :
        IF found.tag = "None" THEN LineError(Some(token), "Invalid Mnemonic")
        ELSE Ok(found.val))

\* the outcome of a Parser method: the parser after it and what it returns
Parsed(lexer_after, ret) == [lexer |-> lexer_after, ret |-> ret]

TokenOfKind(item, kinds) == item.tag = "Some" /\ item.val.kind \in kinds

\* Parser::label
label(tokens) ==
    Let(next_ignore_whitespace(tokens), LAMBDA next :
        CASE next.item.tag = "Panic" -> Parsed(next.self, Panic)
          [] TokenOfKind(next.item, {"Identifier"}) -> Parsed(next.self, Ok(next.item.val.span))
          [] OTHER -> Parsed(next.self, LineError(next.item, "Expected a label")))

\* Parser::new_line_or_eof
new_line_or_eof(tokens) ==
    Let(next_ignore_whitespace(tokens), LAMBDA next :
        CASE next.item.tag = "Panic" -> Parsed(next.self, Panic)
          [] next.item.tag = "None" \/ TokenOfKind(next.item, {"NewLine"}) ->
                Parsed(next.self, Ok("end"))
          [] OTHER -> Parsed(next.self, LineError(next.item, "Expected the end of the line")))

\* Parser::line_end
line_end(tokens) ==
    Let(next_ignore_whitespace(tokens), LAMBDA next :
        CASE next.item.tag = "Panic" -> Parsed(next.self, Panic)
          [] TokenOfKind(next.item, {"Comment"}) -> new_line_or_eof(next.self)
          [] next.item.tag = "None" \/ TokenOfKind(next.item, {"NewLine"}) ->
                Parsed(next.self, Ok("end"))
          [] OTHER -> Parsed(next.self,
                             LineError(next.item, "Expected a comment, or the end of the line")))

\* Parser::statement, Mnemonic::B: the branch instruction with its label
statement(tokens, found) ==
    Let(label(tokens), LAMBDA target :
        IF target.ret.tag # "Ok" THEN target
        ELSE Parsed(target.lexer,
                    Ok(Instruction([tag |-> "Branch", condition |-> found.condition,
                                    kind |-> IF found.l THEN "BranchWithLink" ELSE "Branch",
                                    target |-> target.ret.val]))))

\* self.statement(mnemonic)?; self.line_end()?; the Line with the label given
StatementLine(tokens, found, line_label) ==
    Let(statement(tokens, found), LAMBDA parsed :
        IF parsed.ret.tag # "Ok" THEN parsed
        ELSE Let(line_end(parsed.lexer), LAMBDA ended :
                IF ended.ret.tag # "Ok" THEN ended
                ELSE Parsed(ended.lexer,
                            Ok([label |-> line_label, statement |-> Some(parsed.ret.val)]))))

LineDefault == [label |-> None, statement |-> None]

\* Parser::line on the first token of the line
line(tokens, token) ==
    CASE token.kind = "Identifier" ->
            Let(mnemonic(token), LAMBDA found :
                IF found.tag = "Ok" THEN StatementLine(tokens, found.val, None)
                ELSE Let(next_ignore_whitespace(tokens), LAMBDA next :
                    CASE next.item.tag = "Panic" -> Parsed(next.self, Panic)
                      [] next.item.tag = "None"
                            \/ TokenOfKind(next.item, {"NewLine", "Comment"}) ->
                            Parsed(next.self, Ok([label |-> Some(token.span),
                                                  statement |-> None]))
                      [] TokenOfKind(next.item, {"Identifier"}) ->
                            Let(mnemonic(next.item.val), LAMBDA second :
                                IF second.tag # "Ok" THEN Parsed(next.self, second)
                                ELSE StatementLine(next.self, second.val, Some(token.span)))
                      [] OTHER ->
                            Parsed(next.self,
                                   LineError(next.item,
                                       "Expected a statement, comment, or newline after a label"))))
      [] token.kind = "Comment" ->
            Let(line_end(tokens), LAMBDA ended :
                IF ended.ret.tag # "Ok" THEN ended ELSE Parsed(ended.lexer, Ok(LineDefault)))
      [] token.kind = "NewLine" -> Parsed(tokens, Ok(LineDefault))
      [] OTHER ->
            Parsed(tokens, LineError(Some(token),
                       "Expected the line to start with a label, statement, or comma"))

\* Parser::new
Parser_new(text) == [lexer |-> Lexer_new(text), line_count |-> 0]

\* Parser::next: None at the end of the text, else the next Line or a
\* ParseError (of which the line number and the message are kept)
Parser_next(self) ==
    Let(Lexer_peek(self.lexer), LAMBDA line_start_token :
        CASE line_start_token.item.tag = "Panic" -> [self |-> self, item |-> Panic]
          [] line_start_token.item.tag = "None" ->
                [self |-> [self EXCEPT !.lexer = line_start_token.self], item |-> None]
          [] OTHER ->
                Let(next_ignore_whitespace(line_start_token.self), LAMBDA token :
                    CASE token.item.tag = "Panic" -> [self |-> self, item |-> Panic]
                      [] token.item.tag = "None" ->
                            [self |-> [self EXCEPT !.lexer = token.self], item |-> None]
                      [] OTHER ->
                            Let(line(token.self, token.item.val), LAMBDA parsed :
                                [self |-> [lexer |-> parsed.lexer,
                                           line_count |-> self.line_count + 1],
                                 item |-> CASE parsed.ret.tag = "Panic" -> Panic
                                            [] parsed.ret.tag = "Ok" -> Some(parsed.ret)
                                            [] parsed.ret.tag = "Err" ->
                                                Some(Err([line_number |-> self.line_count + 1,
                                                          message |-> parsed.ret.err.message]))])))

\* PreProcessor::run over the lines of the parser from line source_line on:
\* for (source_line, line) in lines.enumerate()
RECURSIVE run(_, _, _)
run(self, parser, source_line) ==
    Let(Parser_next(parser), LAMBDA next :
        CASE next.item.tag = "Panic" -> Panic
          [] next.item.tag = "None" -> Ok(PreProcessResult(self))
          [] next.item.tag = "Some" /\ next.item.val.tag = "Err" ->
                Err([tag |-> "ParseError", error |-> next.item.val.err])
          [] next.item.tag = "Some" /\ next.item.val.tag = "Ok" ->
                Let(run_line(self, next.item.val.val, source_line), LAMBDA done :
                    CASE done.position.at = "lines" -> run(done.self, next.self, source_line + 1)
                      [] done.position.at = "returned" -> done.position.ret))

\* Lexer::new(input).parse().preprocess()
preprocess(text) == run(PreProcessor_new, Parser_new(text), 0)


\* SymbolTable<Expression>::resolve: every entry is evaluated with
\* resolve_and_insert and inserted. The HashMap is walked in an order of its
\* own; the tables of the model bind labels to numbers, for which every order
\* gives the same table.
RECURSIVE SymbolTable_resolve_from(_, _, _)
SymbolTable_resolve_from(names, self, resolved_table) ==
    IF names = {} THEN Ok(resolved_table)
    ELSE Let(CHOOSE name \in names : TRUE, LAMBDA name :
            Let(resolve_and_insert(self[name], self, resolved_table,
                                   Cardinality(DOMAIN self)),
                LAMBDA value :
                IF value.ret.tag # "Ok" THEN value.ret
                ELSE SymbolTable_resolve_from(names \ {name}, self,
                         Insert(value.resolved_table, name, value.ret.val))))

SymbolTable_resolve(self) == SymbolTable_resolve_from(DOMAIN self, self, <<>>)

\* assemble that sets the program counter whether or not it failed
assemble_text_sets_pc(regs, m, text) ==
    Let(preprocess(text), LAMBDA pre :
        IF pre.tag # "Ok" THEN [memory |-> m, ret |-> pre, registers |-> regs]
        ELSE Let(SymbolTable_resolve(pre.val.symbol_table), LAMBDA symbol_table :
                IF symbol_table.tag # "Ok"
                THEN [memory |-> m, ret |-> symbol_table, registers |-> regs]
                ELSE Let(assemble(regs, m, Program(pre.val.entry_point, pre.val.statements,
                                                   symbol_table.val)),
                         LAMBDA done :
                         [done EXCEPT !.registers[15] = U32(pre.val.entry_point)])))

\* Emulator::assemble(input): the text is lexed, parsed and pre-processed, the
\* symbol table is flattened, and the statements are resolved and written
assemble_text(regs, m, text) ==
    Let(preprocess(text), LAMBDA pre :
        IF pre.tag # "Ok" THEN [memory |-> m, ret |-> pre, registers |-> regs]
        ELSE Let(SymbolTable_resolve(pre.val.symbol_table), LAMBDA symbol_table :
                IF symbol_table.tag # "Ok"
                THEN [memory |-> m, ret |-> symbol_table, registers |-> regs]
                ELSE assemble(regs, m, Program(pre.val.entry_point, pre.val.statements,
                                               symbol_table.val))))

\* --------------------------------- specification: assembling source text
\* A source program of at most MaxSourceLines lines, each ended by a newline,
\* is assembled on an emulator whose program counter is 0 or 8. The lines:
\* `q` / `q;` / `q ` (a label alone, with a trailing comment, with a trailing
\* space), `B q` and `B z` (a branch), `z B q` (a label and a branch), `;` (a
\* comment) and the empty line.
MaxSourceLines == 3

SourceLine(text, line_label, target) ==
    [text |-> text, label |-> line_label, target |-> target]
SourceLines ==
    {SourceLine(<<113>>, Some(<<113>>), None),
     SourceLine(<<113, 59>>, Some(<<113>>), None),
     SourceLine(<<113, 32>>, Some(<<113>>), None),
     SourceLine(<<66, 32, 113>>, None, Some(<<113>>)),
     SourceLine(<<66, 32, 122>>, None, Some(<<122>>)),
     SourceLine(<<122, 32, 66, 32, 113>>, Some(<<122>>), Some(<<113>>)),
     SourceLine(<<59>>, None, None),
     SourceLine(<<>>, None, None)}

SourcePrograms_text == UNION {[1..k -> SourceLines] : k \in 0..MaxSourceLines}

\* the text of a source program: every line followed by a newline
RECURSIVE SourceText(_)
SourceText(lines) ==
    IF lines = <<>> THEN <<>> ELSE Head(lines).text \o <<10>> \o SourceText(Tail(lines))

SourceInit ==
    /\ overflow_checks \in BOOLEAN
    /\ registers \in {ZeroRegisters, [ZeroRegisters EXCEPT ![15] = U32(8)]}
    /\ cpsr = ClearFlags
    /\ memory = <<>>
    /\ status = "new"
    /\ steps = 0
    /\ input \in SourcePrograms_text
    /\ call = NoCall
    /\ FrontEndIdle

\* emulator.assemble(input)
AssembleSource ==
    /\ status = "new"
    /\ \E done \in {assemble_text(registers, memory, SourceText(input))} :
           /\ registers' = done.registers
           /\ memory' = done.memory
           /\ status' = CASE done.ret.tag = "Ok" -> "loaded"
                          [] done.ret.tag = "Err" -> "error"
                          [] done.ret.tag = "Panic" -> "panic"
           /\ call' = [op |-> "assemble", depth |-> 0, ret |-> done.ret,
                       before |-> [registers |-> registers, memory |-> memory]]
    /\ UNCHANGED <<overflow_checks, input, cpsr, steps, preprocessor, lexer>>

SourceNext == AssembleSource

SpecSource == SourceInit /\ [][SourceNext]_vars


\* the zero-based indices of the source lines that carry a statement
StatementLineIndices(lines) ==
    SelectSeq([i \in 1..Len(lines) |-> i - 1],
              LAMBDA i : lines[i + 1].target.tag = "Some")

\* C26: when source text pre-processes, every statement's source_map entry is
\* the zero-based index of the source line the statement was written on: the
\* k-th addressed statement comes from the k-th line that carries a statement,
\* whatever label-only, comment-only and empty lines surround it.
C26_SourceMapIndexIsSourceLine ==
    (call.op = "assemble" /\ preprocess(SourceText(input)).tag = "Ok")
        => Let2(preprocess(SourceText(input)).val, StatementLineIndices(input),
                LAMBDA pre, indices :
                /\ Len(pre.statements) = Len(indices)
                /\ \A k \in 1..Len(pre.statements) :
                       /\ pre.statements[k].address \in DOMAIN pre.source_map
                       /\ pre.source_map[pre.statements[k].address] = indices[k])

\* a label-only line with a trailing comment followed by a branch: the branch
\* is on source line 1 and is mapped to index 2
C26_Counterexample_CommentAfterLabel ==
    /\ call.op = "assemble"
    /\ Len(input) = 2
    /\ input[1].text = <<113, 59>>
    /\ input[2].text = <<66, 32, 113>>
    /\ Let(preprocess(SourceText(input)), LAMBDA pre :
           /\ pre.tag = "Ok"
           /\ Len(pre.val.statements) = 1
           /\ pre.val.source_map[pre.val.statements[1].address] = 2)


\* C27: a step() that returns InvalidInstructionError has advanced R15 by 4
\* and changed nothing else: the other registers, the flags and the memory
\* are as they were before the call.
C27_InvalidInstructionAdvancesPcOnly ==
    [][(call'.op = "step" /\ steps' = steps + 1 /\ call'.ret = InvalidInstruction)
        => /\ registers' = [registers EXCEPT ![15] = carrying_add(registers[15], U32(4), 0).sum]
           /\ cpsr' = cpsr
           /\ memory' = memory]_vars

\* step() has returned the error from address 8 of an assembled program, with
\* operands in the registers and a flag set
C27_Witness_InvalidAfterAdvance ==
    /\ call.op = "step"
    /\ call.ret = InvalidInstruction
    /\ call.before.registers[15] = U32(8)
    /\ registers[15] = U32(12)
    /\ registers[1] # U32(0)
    /\ memory # <<>>


\* the addresses at which two memories hold different bytes
MemoryDiffers(before, after) ==
    {a \in DOMAIN before \cup DOMAIN after : ReadByte(before, a) # ReadByte(after, a)}

\* the index of the first statement that fails to resolve
FirstFailing(statements, symbol_table) ==
    CHOOSE k \in 1..Len(statements) :
        /\ PreProcessedStatement_resolve(statements[k].statement, symbol_table,
                                         statements[k].address).tag # "Ok"
        /\ \A j \in 1..(k - 1) :
               PreProcessedStatement_resolve(statements[j].statement, symbol_table,
                                             statements[j].address).tag = "Ok"

DefiningLines(lines, name) == {i \in 1..Len(lines) : lines[i].label = Some(name)}
BoundLines(lines, name) ==
    {i \in DefiningLines(lines, name) :
        \E j \in i..Len(lines) : lines[j].target.tag = "Some"}
\* the address the last bound definition of `name` gets: four bytes for every
\* statement line before it
BoundAddress(lines, name) ==
    Let(CHOOSE i \in BoundLines(lines, name) : \A j \in BoundLines(lines, name) : j <= i,
        LAMBDA last :
        4 * Cardinality({j \in 1..(last - 1) : lines[j].target.tag = "Some"}))

\* C29: a label with no addressed statement on or after any of its defining
\* lines is not in the symbol table the pre-processor returns, every branch
\* to it fails to resolve with SymbolNotFound and so does assemble(); a label
\* with a statement on or after its line is bound to that statement's address.
C29_QueuedLabelIsUnbound ==
    (call.op = "assemble" /\ preprocess(SourceText(input)).tag = "Ok")
        => Let2(preprocess(SourceText(input)).val,
                SymbolTable_resolve(preprocess(SourceText(input)).val.symbol_table),
                LAMBDA pre, symbol_table :
                \A name \in {<<113>>, <<122>>} :
                    /\ (DefiningLines(input, name) # {} /\ BoundLines(input, name) = {})
                         => /\ name \notin DOMAIN pre.symbol_table
                            /\ symbol_table.tag = "Ok"
                            /\ \A k \in 1..Len(pre.statements) :
                                   pre.statements[k].statement.kind.target = name
                                     => /\ PreProcessedStatement_resolve(
                                               pre.statements[k].statement, symbol_table.val,
                                               pre.statements[k].address)
                                             = Err("SymbolNotFound")
                                        /\ call.ret = Err("SymbolNotFound")
                    /\ BoundLines(input, name) # {}
                         => /\ name \in DOMAIN pre.symbol_table
                            /\ pre.symbol_table[name]
                                 = AddressNumber(BoundAddress(input, name)))

\* `z B q` / `B q` / `q`: q is queued when the input ends and the branch to it
\* fails, while z is bound to address 0
C29_Witness_LabelLeftInQueue ==
    /\ call.op = "assemble"
    /\ Len(input) = 3
    /\ input[1].label = Some(<<122>>)
    /\ input[2].text = <<66, 32, 113>>
    /\ input[3].text = <<113>>
    /\ call.ret = Err("SymbolNotFound")
    /\ <<113>> \notin DOMAIN preprocess(SourceText(input)).val.symbol_table
    /\ preprocess(SourceText(input)).val.symbol_table[<<122>>] = AddressNumber(0)


\* --------------------------------- specification: hexadecimal literals
\* A string H of one to MaxHexDigits hexadecimal digits is parsed by
\* Parser::expression twice: written `0xH`, then written `&H`.
MaxHexDigits == 3

\* 0 1 9 F a
HexDigitChars == {48, 49, 57, 70, 97}

HexDigitStrings == UNION {[1..k -> HexDigitChars] : k \in 1..MaxHexDigits}

HexInit ==
    /\ overflow_checks \in BOOLEAN
    /\ input \in HexDigitStrings
    /\ call = NoCall
    /\ EmulatorIdle
    /\ preprocessor = <<>>
    /\ lexer = Lexer_new(<<48, 120>> \o input)

\* Lexer::new("0xH"), expression()
ParseZeroX ==
    /\ call = NoCall
    /\ \E done \in {expression([lexer |-> lexer])} :
        /\ lexer' = done.self.lexer
        /\ call' = [op |-> "0x", depth |-> 0, ret |-> done.ret]
    /\ UNCHANGED <<overflow_checks, input, registers, cpsr, memory, status, steps,
                   preprocessor>>

\* Lexer::new("&H"), expression()
ParseAmpersand ==
    /\ call.op = "0x"
    /\ \E done \in {expression([lexer |-> Lexer_new(<<38>> \o input)])} :
        /\ lexer' = done.self.lexer
        /\ call' = [op |-> "&", depth |-> 0, ret |-> done.ret, zero_x |-> call.ret]
    /\ UNCHANGED <<overflow_checks, input, registers, cpsr, memory, status, steps,
                   preprocessor>>

HexNext == ParseZeroX \/ ParseAmpersand

SpecHex == HexInit /\ [][HexNext]_vars

\* C30: for every non-empty string H of hexadecimal digits the parser gives
\* `&H` the value it gives `0xH`, and that value is H read in base 16.
C30_AmpersandEqualsZeroX ==
    call.op = "&"
        => /\ call.zero_x = Ok([tag |-> "Number", base |-> 16, n |-> U32(HexValue(input))])
           /\ call.ret = call.zero_x

\* `0x1F` is 31 and `&1F` is 15
C30_Counterexample_FirstDigitDropped ==
    /\ call.op = "&"
    /\ input = <<49, 70>>
    /\ call.zero_x = Ok([tag |-> "Number", base |-> 16, n |-> U32(31)])
    /\ call.ret = Ok([tag |-> "Number", base |-> 16, n |-> U32(15)])

====
